---- MODULE Spec2Model ----
(***************************************************************************)
(* Video recording tools of playwright-mcp (browser_video_start / _stop /  *)
(* _status / _get) and their shared per-connection state.                  *)
(*                                                                         *)
(* The repository holds two revisions of src/tools/video.ts:               *)
(*   rev = "cdp"  src/unnamed/part_006, lines 494-1491: Browserless        *)
(*                detection, Browserless recording, CDP screencast,        *)
(*                host-managed (context) recording;                        *)
(*   rev = "url"  src/src/tools/video.ts, lines 1124-1865: every CDP       *)
(*                endpoint is recorded through Browserless, responses      *)
(*                carry an HTTP URL unless returnBase64 is set.            *)
(* A behaviour runs one revision, chosen in Init.                          *)
(*                                                                         *)
(* Tool calls are asynchronous: a call occupies a slot and advances from   *)
(* one await to the next; calls in different slots interleave.             *)
(***************************************************************************)
EXTENDS Integers, Sequences, FiniteSets, TLC

\* ------------------------------------------------------------------ bounds
MaxCalls  == 4   \* tool calls issued in one behaviour
MaxTime   == 1   \* largest value of the clock (Date.now())
MaxFrames == 2   \* screencast frames emitted in one behaviour

Slots  == {1, 2}                 \* tool calls in flight at the same time
Tabs   == {1, 2}                 \* browser tabs (targets)
Names  == {"a.webm", "b"}        \* file names a caller passes
NULL   == 0                      \* undefined / no object

\* ------------------------------------------------------- bytes and base64
\* Strings are sequences of character codes, buffers sequences of bytes.

\* the character of a base64 digit
B64Char(s) ==
    IF s < 26 THEN 65 + s
    ELSE IF s < 52 THEN 97 + (s - 26)
    ELSE IF s < 62 THEN 48 + (s - 52)
    ELSE IF s = 62 THEN 43 ELSE 47

\* the digit of a character, -1 when the character is not a base64 digit
B64Val(c) ==
    IF c >= 65 /\ c <= 90 THEN c - 65
    ELSE IF c >= 97 /\ c <= 122 THEN c - 71
    ELSE IF c >= 48 /\ c <= 57 THEN c + 4
    ELSE IF c = 43 \/ c = 45 THEN 62
    ELSE IF c = 47 \/ c = 95 THEN 63
    ELSE -1

RECURSIVE toBase64(_)
\* buffer.toString('base64')
toBase64(b) ==
    IF Len(b) = 0 THEN <<>>
    ELSE IF Len(b) = 1 THEN
        << B64Char(b[1] \div 4), B64Char((b[1] % 4) * 16), 61, 61 >>
    ELSE IF Len(b) = 2 THEN
        << B64Char(b[1] \div 4), B64Char((b[1] % 4) * 16 + (b[2] \div 16)),
           B64Char((b[2] % 16) * 4), 61 >>
    ELSE
        << B64Char(b[1] \div 4), B64Char((b[1] % 4) * 16 + (b[2] \div 16)),
           B64Char((b[2] % 16) * 4 + (b[3] \div 64)), B64Char(b[3] % 64) >>
        \o toBase64(SubSeq(b, 4, Len(b)))

RECURSIVE B64Digits(_)
\* the legal digits of a string up to its first '=' (illegal characters are skipped)
B64Digits(s) ==
    IF Len(s) = 0 \/ s[1] = 61 THEN <<>>
    ELSE IF B64Val(s[1]) >= 0 THEN << B64Val(s[1]) >> \o B64Digits(Tail(s))
    ELSE B64Digits(Tail(s))

RECURSIVE B64Bytes(_)
B64Bytes(d) ==
    IF Len(d) < 2 THEN <<>>
    ELSE IF Len(d) = 2 THEN
        << d[1] * 4 + (d[2] \div 16) >>
    ELSE IF Len(d) = 3 THEN
        << d[1] * 4 + (d[2] \div 16), (d[2] % 16) * 16 + (d[3] \div 4) >>
    ELSE
        << d[1] * 4 + (d[2] \div 16), (d[2] % 16) * 16 + (d[3] \div 4),
           (d[3] % 4) * 64 + d[4] >>
        \o B64Bytes(SubSeq(d, 5, Len(d)))

\* Buffer.from(s, 'base64')
fromBase64(s) == B64Bytes(B64Digits(s))

\* Buffer.from(s, 'binary'): one byte per character, its code modulo 256
fromBinary(s) == [i \in 1..Len(s) |-> s[i] % 256]

isValidWebMFile(buffer) ==
    IF Len(buffer) < 4 THEN FALSE
    ELSE buffer[1] = 26 /\ buffer[2] = 69 /\ buffer[3] = 223 /\ buffer[4] = 163

\* ------------------------------------------------------ backend selection
\* A connection descriptor: the --cdp-endpoint URL by what the selection reads of it.
\*   present  a CDP endpoint is configured          valid  new URL(endpoint) parses
\*   host     hostname contains 'browserless'       path   pathname contains '/browserless'
\*   token    a 'token' query parameter is present  record value of the 'record' parameter
NoEndpoint ==
    [present |-> FALSE, valid |-> FALSE, host |-> FALSE, path |-> FALSE,
     token |-> FALSE, record |-> "none"]

Endpoint(v, h, p, t, r) ==
    [present |-> TRUE, valid |-> v, host |-> h, path |-> p, token |-> t, record |-> r]

isBrowserlessEndpoint(e) ==
    IF ~e.present THEN FALSE
    ELSE IF ~e.valid THEN FALSE
    ELSE e.host \/ e.path \/ e.token

\* a check for the presence of the record parameter, whatever its value
hasRecordParameter(e) ==
    IF ~e.valid THEN FALSE ELSE e.record # "none"

hasRecordingEnabled(e) ==
    IF ~e.valid THEN FALSE ELSE e.record = "true"

\* every vendor-marked endpoint, with and without the record flag
VendorEndpoints ==
    { Endpoint(TRUE, h, p, t, r) :
        h \in BOOLEAN, p \in BOOLEAN, t \in BOOLEAN, r \in {"none", "true", "1"} }
    \ { Endpoint(TRUE, FALSE, FALSE, FALSE, r) : r \in {"none", "true", "1"} }

\* an endpoint without a vendor marker, and one that does not parse as a URL
RegularEndpoint == Endpoint(TRUE, FALSE, FALSE, FALSE, "none")
InvalidEndpoint == Endpoint(FALSE, TRUE, FALSE, TRUE, "true")

\* The configuration of a connection: config.browser.cdpEndpoint,
\* config.browser.contextOptions.recordVideo (--video-mode), whether
\* context().browser() is there (it is null for the persistent context of a local
\* launch), and whether the HTTP transport set server._httpServerUrl.
Config(e, rv, b, h) == [cdpEndpoint |-> e, recordVideo |-> rv, browser |-> b, http |-> h]

\* One configuration of each backend, in which something can be recorded.
ProprietaryConfig == Config(Endpoint(TRUE, TRUE, FALSE, FALSE, "true"), FALSE, TRUE, FALSE)
FrameCaptureConfig == Config(RegularEndpoint, FALSE, TRUE, FALSE)
ContextConfig == Config(NoEndpoint, TRUE, TRUE, TRUE)

\* Revision cdp reads the whole descriptor and never reads the server URL. The
\* vendor endpoints without record=true are all there, two of them with
\* --video-mode as well.
CdpConfigs ==
    { Config(e, FALSE, TRUE, FALSE) : e \in { v \in VendorEndpoints : v.record # "true" } }
    \cup { Config(Endpoint(TRUE, TRUE, FALSE, FALSE, "none"), TRUE, TRUE, FALSE),
           Config(Endpoint(TRUE, FALSE, FALSE, TRUE, "1"), TRUE, TRUE, FALSE) }
    \cup { ProprietaryConfig, FrameCaptureConfig, Config(RegularEndpoint, TRUE, TRUE, FALSE) }
    \cup { Config(NoEndpoint, rv, b, FALSE) : rv \in BOOLEAN, b \in BOOLEAN }

\* More configurations of revision cdp: the other vendor markers with record=true,
\* and an endpoint that is no URL.
CdpVariants ==
    { Config(Endpoint(TRUE, FALSE, TRUE, FALSE, "true"), FALSE, TRUE, FALSE),
      Config(Endpoint(TRUE, FALSE, FALSE, TRUE, "true"), FALSE, TRUE, FALSE),
      Config(Endpoint(TRUE, TRUE, TRUE, TRUE, "true"), TRUE, TRUE, FALSE),
      Config(InvalidEndpoint, FALSE, TRUE, FALSE) }

\* Revision url reads only whether an endpoint is configured.
UrlConfigs ==
    { Config(RegularEndpoint, FALSE, TRUE, TRUE), ContextConfig,
      Config(NoEndpoint, FALSE, TRUE, TRUE), Config(NoEndpoint, TRUE, FALSE, TRUE) }

\* the same endpoint served over stdio (no server URL)
UrlVariants == { Config(RegularEndpoint, FALSE, TRUE, FALSE) }

\* ------------------------------------------------------------- messages
\* A response text, by the literal fragments of it that matter.
MsgText(msg) ==
    CASE msg = "AlreadyActive"     -> {"already active"}
      [] msg = "NotEnabled"        -> {"Browserless endpoint detected", "record=true",
                                       "wss://production-sfo.browserless.io?token=YOUR_TOKEN&record=true"}
      [] msg = "BrowserlessFailed" -> {"Browserless recording failed", "record=true"}
      [] msg = "ScreencastFailed"  -> {"Screencast recording failed"}
      [] msg = "RegularCdp"        -> {"Regular CDP endpoint detected", "--video-mode",
                                       "useScreencast: true"}
      [] msg = "NotAvailable"      -> {"Video recording not available", "--video-mode"}
      [] msg = "StartedBrowserless" -> {"Started Browserless video recording"}
      [] msg = "StartedScreencast" -> {"Started Chrome DevTools screencast recording"}
      [] msg = "StartedCdpContext" -> {"Video recording started", "CDP context"}
      [] msg = "StartedContext"    -> {"Video recording started"}
      [] msg = "NotActive"         -> {"No active video recording found"}
      [] OTHER                     -> {}

\* ----------------------------------------------------------------- state
VARIABLES
    rev,             \* the revision of the tools that runs: "cdp" or "url"
    config,          \* context.config.browser
    scope,           \* what the client and the browser do in this behaviour
    http,            \* the last exchange of the HTTP server: the request and its answer
    currentTab,      \* the tab context.currentTabOrDie() returns
    videoRecording,  \* context._videoRecording: NULL or the index of a session in recs
    recs,            \* the session objects ever stored in context._videoRecording
    storedVideos,    \* context._storedVideos: file name -> path (NoPath: no entry)
    cdp,             \* the CDP sessions (control-channel handles) ever opened
    files,           \* the files under test-results: records [path, bytes]
    dirs,            \* the directories created under test-results
    now,             \* Date.now()
    nframes,         \* screencast frames emitted so far
    call,            \* the tool calls in flight, one per slot
    log              \* the calls that returned: hist, their results in the order
                     \* they returned, and last, the whole response of the last one

vars == << rev, config, scope, http, currentTab, videoRecording, recs, storedVideos, cdp, files,
           dirs, now, nframes, call, log >>

\* A path under test-results: <kind>-<ts>/<name>; a screencast frame file is
\* name "frame" with its index idx, a directory is name "".
NoPath == [kind |-> "none", ts |-> 0, name |-> "", idx |-> 0]
Path(k, t, n) == [kind |-> k, ts |-> t, name |-> n, idx |-> 0]
FramePath(t, i) == [kind |-> "screencast", ts |-> t, name |-> "frame", idx |-> i]
DirOf(p) == [kind |-> p.kind, ts |-> p.ts]

NoManifest == [frameCount |-> -1, frames |-> <<>>]
File(p, b) == [path |-> p, bytes |-> b, manifest |-> NoManifest]

\* the file the host-managed recording of a tab is written to
HostName(tab) == IF tab = 1 THEN "page1.webm" ELSE "page2.webm"
HostPath(tab) == Path("videos", 0, HostName(tab))

\* what a poll of waitForVideoFileComplete observes when stat fails, and what
\* stands for the observation before the first poll
Unreadable == -1
NoSample == -2

IdleCall ==
    [pc |-> "idle", op |-> "none", tab |-> 0, name |-> "", useScreencast |-> FALSE,
     returnVideo |-> FALSE, returnBase64 |-> FALSE, forceBase64 |-> FALSE,
     maxWait |-> 0, info |-> NULL, h |-> NULL, buf |-> <<>>, path |-> NoPath,
     i |-> 0, lastSize |-> 0, stableCount |-> 0, elapsed |-> 0, next |-> "idle",
     acts |-> {}, overlap |-> FALSE, fault |-> FALSE, probed |-> {},
     seen |-> NoSample, run |-> 0, regular |-> TRUE]

InFlight == { s \in Slots : call[s].pc # "idle" }

\* a call returns: its result is logged and its slot becomes free
\* The response of a call: res, the kind of result; msg, its text (see MsgText);
\* hasData and data, the base64 data of an inline resource; uri, the kind of URI of
\* the resource ("http", "file", "none"); served, the file the resource stands for;
\* name, the file name a get asked for or a status reports, and probed, the paths
\* the search of a get tested.
\* supportsVideos is what the call read of context.clientSupportsVideos().
Entry(c, res, msg) ==
    [op |-> c.op, res |-> res, msg |-> msg, info |-> c.info, overlap |-> c.overlap,
     fault |-> c.fault, supportsVideos |-> FALSE, probed |-> c.probed,
     name |-> IF c.op = "get" THEN c.name
              ELSE IF c.op = "status" /\ c.info # NULL THEN recs[c.info].name
              ELSE "",
     hasData |-> FALSE, data |-> <<>>, uri |-> "none", served |-> NoPath]

\* a response that carries content
WithContent(c, e, content, filePath, client) ==
    [e EXCEPT !.hasData = content.hasData, !.data = content.data, !.uri = content.uri,
              !.served = IF content.uri = "none" THEN NoPath ELSE filePath,
              !.supportsVideos = /\ client
                                 /\ c.returnVideo /\ ~c.forceBase64
                                 /\ (rev = "cdp" \/ c.returnBase64)]

\* what the history keeps of a returned call
\* what is kept of a response: besides its result, the path of the file whose
\* HTTP locator it returned
Slim(e) ==
    [op |-> e.op, res |-> e.res, info |-> e.info, overlap |-> e.overlap,
     locator |-> IF e.uri = "http" THEN e.served ELSE NoPath]

ReturnEntry(s, e) ==
    /\ log' = [hist |-> Append(log.hist, Slim(e)), last |-> e]
    /\ call' = [call EXCEPT ![s] = IdleCall]

Return(s, c, res, msg) == ReturnEntry(s, Entry(c, res, msg))

\* ------------------------------------------------------------ environment
\* calls are still to come in this behaviour
MoreCalls == Len(log.hist) + Cardinality(InFlight) < scope.calls

\* time passes (the clock is coarse: it does not advance while a call is in flight)
Tick ==
    /\ now < scope.time
    /\ InFlight = {}
    /\ MoreCalls
    /\ now' = now + 1
    /\ UNCHANGED << rev, config, scope, http, currentTab, videoRecording, recs, storedVideos, cdp,
                    files, dirs, nframes, call, log >>

\* another tool (browser_tab_select) makes another tab the current one
SelectTab(t) ==
    /\ t # currentTab
    /\ t \in scope.tabs
    /\ InFlight = {}
    /\ MoreCalls
    /\ currentTab' = t
    /\ UNCHANGED << rev, config, scope, http, videoRecording, recs, storedVideos, cdp, files, dirs,
                    now, nframes, call, log >>

\* ------------------------------------------------------------- tool calls
\* handle(context, params) of a tool: reads the parameters and returns the action
Invoke(s, op, name, sc, rv, rb, fb, mw) ==
    /\ call[s].pc = "idle"
    /\ op \in scope.ops
    /\ s \in scope.slots
    /\ \A t \in scope.slots : t < s => call[t].pc # "idle"
    /\ MoreCalls
    \* only start and stop calls run while another call is in flight
    /\ InFlight # {} => op \in {"start", "stop"}
    /\ \A t \in InFlight : call[t].op \in {"start", "stop"}
    /\ call' = [t \in Slots |->
                  IF t = s THEN
                      [IdleCall EXCEPT
                          !.pc = op, !.op = op,
                          !.tab = IF op = "start" THEN currentTab ELSE 0,
                          !.name = name, !.useScreencast = sc,
                          !.returnVideo = rv, !.returnBase64 = rb,
                          !.forceBase64 = fb, !.maxWait = mw,
                          !.info = IF op \in {"stop", "status"} THEN videoRecording
                                   ELSE NULL,
                          !.overlap = (InFlight # {})]
                  ELSE IF call[t].pc # "idle" THEN [call[t] EXCEPT !.overlap = TRUE]
                  ELSE call[t]]
    /\ UNCHANGED << rev, config, scope, http, currentTab, videoRecording, recs, storedVideos, cdp,
                    files, dirs, now, nframes, log >>

\* browser_video_start({filename, useScreencast})
InvokeStart(s) ==
    \E name \in scope.names, sc \in scope.useScreencast :
        /\ sc => rev = "cdp"
        /\ Invoke(s, "start", name, sc, FALSE, FALSE, FALSE, 0)

\* The backend the start action takes for a configuration and a request:
\*   "NotEnabled"   vendor endpoint without record=true
\*   "Proprietary"  Browserless.startRecording / stopRecording
\*   "FrameCapture" Page.startScreencast
\*   "RegularCdp"   regular CDP endpoint, nothing configured
\*   "Context"      the recording the host started with the context
\*   "NotAvailable" local browser, nothing configured
\* a selection that takes the host-managed recording without looking for it
SelectBackendCdpUnconfigured(cfg, useScreencast) ==
    IF cfg.cdpEndpoint.present THEN
        IF isBrowserlessEndpoint(cfg.cdpEndpoint) THEN
            IF ~hasRecordingEnabled(cfg.cdpEndpoint) THEN "NotEnabled"
            ELSE "Proprietary"
        ELSE IF useScreencast THEN "FrameCapture"
        ELSE "Context"
    ELSE "Context"

\* a selection that looks at the host-managed recording first
SelectBackendCdpContextFirst(cfg, useScreencast) ==
    IF cfg.recordVideo THEN "Context"
    ELSE IF ~cfg.cdpEndpoint.present THEN "NotAvailable"
    ELSE IF isBrowserlessEndpoint(cfg.cdpEndpoint) THEN
        IF ~hasRecordingEnabled(cfg.cdpEndpoint) THEN "NotEnabled" ELSE "Proprietary"
    ELSE IF useScreencast THEN "FrameCapture"
    ELSE "RegularCdp"

SelectBackendCdp(cfg, useScreencast) ==
    IF cfg.cdpEndpoint.present THEN
        IF isBrowserlessEndpoint(cfg.cdpEndpoint) THEN
            IF ~hasRecordingEnabled(cfg.cdpEndpoint) THEN "NotEnabled"
            ELSE "Proprietary"
        ELSE IF useScreencast THEN "FrameCapture"
        ELSE IF ~cfg.recordVideo THEN "RegularCdp"
        ELSE "Context"
    ELSE IF cfg.recordVideo THEN "Context"
    ELSE "NotAvailable"

\* a selection that sends every start to the vendor's recorder
SelectBackendVendorOnly(cfg) == "Proprietary"

SelectBackendUrl(cfg) ==
    IF cfg.cdpEndpoint.present THEN "Proprietary"
    ELSE IF cfg.recordVideo THEN "Context"
    ELSE "NotAvailable"

SelectBackend(r, cfg, useScreencast) ==
    IF r = "cdp" THEN SelectBackendCdp(cfg, useScreencast) ELSE SelectBackendUrl(cfg)

\* a new CDP session on the page of a tab
NewCdpSession(tab) ==
    [tab |-> tab, detachCalls |-> 0, detached |-> FALSE, recording |-> FALSE,
     casting |-> FALSE, listener |-> FALSE, emitted |-> 0, acked |-> 0]

\* the object a start stores in context._videoRecording
Session(c, kind, h) ==
    [tab |-> c.tab, name |-> c.name, startTime |-> now, kind |-> kind, h |-> h,
     frames |-> <<>>, isCdpEndpoint |-> config.cdpEndpoint.present]

\* context._videoRecording = {...}
Store(c, kind, h) ==
    /\ recs' = Append(recs, Session(c, kind, h))
    /\ videoRecording' = Len(recs) + 1

\* a check that never finds a recording
NeverActive(existingVideoInfo) == FALSE

\* The first statement of the start action: is a recording already active?
AlreadyActive(existingVideoInfo) == existingVideoInfo # NULL

\* videoStart.action up to its first await
StartAction(s) ==
    LET c == call[s]
        b == SelectBackend(rev, config, c.useScreencast)
    IN
    /\ c.pc = "start"
    /\ IF AlreadyActive(videoRecording) THEN
           /\ Return(s, c, "AlreadyActive", "AlreadyActive")
           /\ UNCHANGED << videoRecording, recs >>
       ELSE IF ~config.browser THEN
           \* throw new Error('Browser not available for video recording')
           /\ Return(s, c, "Exception", "BrowserNotAvailable")
           /\ UNCHANGED << videoRecording, recs >>
       ELSE IF b = "NotEnabled" THEN
           /\ Return(s, c, "NotEnabled", "NotEnabled")
           /\ UNCHANGED << videoRecording, recs >>
       ELSE IF b = "Proprietary" THEN
           /\ call' = [call EXCEPT ![s].pc = "open"]
           /\ UNCHANGED << videoRecording, recs, log >>
       ELSE IF b = "FrameCapture" THEN
           /\ call' = [call EXCEPT ![s].pc = "sc_open"]
           /\ UNCHANGED << videoRecording, recs, log >>
       ELSE IF b = "RegularCdp" THEN
           /\ Return(s, c, "NotConfigured", "RegularCdp")
           /\ UNCHANGED << videoRecording, recs >>
       ELSE IF b = "Context" THEN
           /\ Store(c, "context", NULL)
           /\ Return(s, c, "Started",
                     IF config.cdpEndpoint.present THEN "StartedCdpContext"
                     ELSE "StartedContext")
       ELSE
           /\ Return(s, c, "NotConfigured", "NotAvailable")
           /\ UNCHANGED << videoRecording, recs >>
    /\ UNCHANGED << rev, config, scope, http, currentTab, storedVideos, cdp, files, dirs, now,
                    nframes >>

\* cdpSession.detach(): fails on a session that is already detached, and may fail
\* on a live one (the target is gone)
\* a cleanup that leaves the session as it is
NoDetach(h, ok) == cdp' = cdp

Detach(h, ok) ==
    cdp' = [cdp EXCEPT ![h].detachCalls = @ + 1,
                       ![h].detached = @ \/ ok,
                       ![h].recording = IF ok THEN FALSE ELSE @,
                       ![h].casting = IF ok THEN FALSE ELSE @,
                       ![h].listener = IF ok THEN FALSE ELSE @]

\* Proprietary start: newCDPSession and, in revision cdp, detectBrowserlessCapabilities
\*   "fail"    newCDPSession rejects
\*   "nocaps"  Browserless.getCapabilities answers without recording === true
\*   "ok"      the session is open (and recording is supported)
StartOpen(s) ==
    LET c == call[s] IN
    /\ c.pc = "open"
    /\ \E outcome \in {"fail", "nocaps", "ok"} :
        /\ outcome = "nocaps" => rev = "cdp"
        /\ IF outcome = "fail" THEN
               /\ Return(s, [c EXCEPT !.fault = TRUE], "StartFailed", "BrowserlessFailed")
               /\ UNCHANGED cdp
           ELSE
               /\ cdp' = Append(cdp, NewCdpSession(c.tab))
               /\ call' = [call EXCEPT ![s].h = Len(cdp) + 1,
                                       ![s].fault = (outcome = "nocaps"),
                                       ![s].pc = IF outcome = "nocaps" THEN "start_fail"
                                                 ELSE "rec"]
               /\ UNCHANGED log
    /\ UNCHANGED << rev, config, scope, http, currentTab, videoRecording, recs, storedVideos, files,
                    dirs, now, nframes >>

\* Proprietary start: Browserless.startRecording answers, fails, or (revision cdp)
\* loses the race against the 10 s timer
StartRecording(s) ==
    LET c == call[s] IN
    /\ c.pc = "rec"
    /\ \E outcome \in {"ok", "error", "timeout"} :
        /\ outcome = "timeout" => rev = "cdp"
        /\ IF outcome = "ok" THEN
               /\ cdp' = [cdp EXCEPT ![c.h].recording = TRUE]
               /\ Store(c, "browserless", c.h)
               /\ Return(s, c,
                         "Started", "StartedBrowserless")
           ELSE IF rev = "cdp" THEN
               /\ call' = [call EXCEPT ![s].pc = "start_fail", ![s].fault = TRUE]
               /\ UNCHANGED << cdp, videoRecording, recs, log >>
           ELSE
               \* revision url: the catch block returns, the session stays attached
               /\ Return(s, [c EXCEPT !.fault = TRUE],
                         "StartFailed", "BrowserlessFailed")
               /\ UNCHANGED << cdp, videoRecording, recs >>
    /\ UNCHANGED << rev, config, scope, http, currentTab, storedVideos, files, dirs, now, nframes >>

\* the catch block of a Proprietary or FrameCapture start: detach, ignoring its failure
StartCleanup(s) ==
    LET c == call[s] IN
    /\ c.pc = "start_fail"
    /\ \E ok \in BOOLEAN :
        /\ cdp[c.h].detached => ~ok
        /\ Detach(c.h, ok)
    /\ Return(s, c, "StartFailed",
              IF c.useScreencast /\ SelectBackend(rev, config, c.useScreencast) = "FrameCapture"
              THEN "ScreencastFailed" ELSE "BrowserlessFailed")
    /\ UNCHANGED << rev, config, scope, http, currentTab, videoRecording, recs, storedVideos, files,
                    dirs, now, nframes >>

\* FrameCapture start: newCDPSession resolves or rejects
ScreencastOpen(s) ==
    LET c == call[s] IN
    /\ c.pc = "sc_open"
    /\ \E ok \in BOOLEAN :
        IF ok THEN
            /\ cdp' = Append(cdp, NewCdpSession(c.tab))
            /\ call' = [call EXCEPT ![s].h = Len(cdp) + 1,
                                    ![s].pc = "sc_start"]
            /\ UNCHANGED log
        ELSE
            /\ Return(s, [c EXCEPT !.fault = TRUE], "StartFailed", "ScreencastFailed")
            /\ UNCHANGED cdp
    /\ UNCHANGED << rev, config, scope, http, currentTab, videoRecording, recs, storedVideos, files,
                    dirs, now, nframes >>

\* FrameCapture start: startStandardScreencast (Page.startScreencast) resolves or rejects
ScreencastStart(s) ==
    LET c == call[s] IN
    /\ c.pc = "sc_start"
    /\ \E ok \in BOOLEAN :
        IF ok THEN
            /\ cdp' = [cdp EXCEPT ![c.h].casting = TRUE]
            /\ call' = [call EXCEPT ![s].pc = "sc_store"]
        ELSE
            /\ call' = [call EXCEPT ![s].pc = "start_fail", ![s].fault = TRUE]
            /\ UNCHANGED cdp
    /\ UNCHANGED << rev, config, scope, http, currentTab, videoRecording, recs, storedVideos, files,
                    dirs, now, nframes, log >>

\* FrameCapture start, after the await: the session is stored and the
\* 'Page.screencastFrame' listener is registered
ScreencastStore(s) ==
    LET c == call[s] IN
    /\ c.pc = "sc_store"
    /\ Store(c, "screencast", c.h)
    /\ cdp' = [cdp EXCEPT ![c.h].listener = TRUE]
    /\ Return(s, c, "Started", "StartedScreencast")
    /\ UNCHANGED << rev, config, scope, http, currentTab, storedVideos, files, dirs, now, nframes >>

\* The browser emits a 'Page.screencastFrame' event on a session that is casting.
\* The listener, when registered, appends the frame to the frames of whatever
\* session context._videoRecording holds at that moment and acknowledges it.
ScreencastFrame(h) ==
    /\ cdp[h].casting
    /\ ~cdp[h].detached
    /\ nframes < MaxFrames
    /\ nframes' = nframes + 1
    /\ LET videoInfo == videoRecording
           buffered == /\ cdp[h].listener
                       /\ videoInfo # NULL
                       /\ recs[videoInfo].kind = "screencast"
       IN
       /\ recs' = IF buffered
                  THEN [recs EXCEPT ![videoInfo].frames =
                            Append(@, [id |-> nframes + 1, h |-> h, timestamp |-> now])]
                  ELSE recs
       /\ cdp' = [cdp EXCEPT ![h].emitted = @ + 1,
                             ![h].acked = IF buffered THEN @ + 1 ELSE @]
    /\ UNCHANGED << rev, config, scope, http, currentTab, videoRecording, storedVideos, files, dirs,
                    now, call, log >>

\* ------------------------------------------------------------- filesystem
\* fs.existsSync(p)
ExistsIn(fs, ds, p) ==
    IF p.name = "" THEN DirOf(p) \in ds ELSE \E f \in fs : f.path = p
Exists(p) == ExistsIn(files, dirs, p)
FileAt(fs, p) == CHOOSE f \in fs : f.path = p
\* fs.promises.writeFile(p, b)
WriteFile(fs, f) == { g \in fs : g.path # f.path } \cup {f}

\* The recording the host makes of a tab: the bytes it has flushed are a prefix
\* of HostVideo.
HostVideo == << 26, 69, 223, 163 >>
HostChunk == 2

\* the host flushes more of a tab's recording to its file
HostFlush(t) ==
    LET p == HostPath(t)
        size == IF Exists(p) THEN Len(FileAt(files, p).bytes) ELSE 0
    IN
    /\ config.recordVideo
    /\ \E r \in 1..Len(recs) : recs[r].kind = "context" /\ recs[r].tab = t
    /\ InFlight # {} \/ MoreCalls
    /\ size < Len(HostVideo)
    /\ files' = WriteFile(files, File(p, SubSeq(HostVideo, 1,
                              IF size + HostChunk < Len(HostVideo) THEN size + HostChunk
                              ELSE Len(HostVideo))))
    /\ dirs' = dirs \cup {DirOf(p)}
    /\ UNCHANGED << rev, config, scope, http, currentTab, videoRecording, recs, storedVideos, cdp,
                    now, nframes, call, log >>

\* --------------------------------------------- Browserless.stopRecording
\* A response of Browserless.stopRecording: its value and data properties.
\* type: "string" (chars), "buffer" (bytes in chars), "other" (an object), "undefined"
Prop(type, chars) == [type |-> type, chars |-> chars]
Undefined == Prop("undefined", <<>>)
Response(value, data) == [value |-> value, data |-> data]

\* JavaScript truthiness of a property
Truthy(p) ==
    IF p.type = "undefined" THEN FALSE
    ELSE IF p.type = "string" THEN Len(p.chars) > 0
    ELSE TRUE

\* recorded videos a backend may return
WebM == << 26, 69, 223, 163 >>
OneByte == << 1 >>

GoodResponse == Response(Prop("string", toBase64(WebM)), Undefined)

Responses ==
    { Response(Prop("string", toBase64(WebM)), Undefined),   \* base64 text in value
      Response(Prop("string", toBase64(OneByte)), Undefined),
      Response(Prop("string", WebM), Undefined),             \* binary string in value
      Response(Prop("string", OneByte), Undefined),          \* one character
      Response(Prop("string", <<>>), Undefined),             \* empty string
      Response(Prop("buffer", WebM), Undefined),             \* a Buffer in value
      Response(Prop("other", <<>>), Undefined),              \* an object in value
      Response(Undefined, Prop("string", toBase64(OneByte))),\* base64 text in data
      Response(Undefined, Undefined) }

Decoded(buf) == [ok |-> TRUE, buf |-> buf, error |-> "none"]
Rejected(error) == [ok |-> FALSE, buf |-> <<>>, error |-> error]

\* revision cdp: the video buffer of a response, or the error thrown
NormalizeCdp(response) ==
    LET videoBuffer ==
            IF Truthy(response.value) THEN
                IF response.value.type = "string" THEN
                    \* Buffer.from(value, 'base64') never throws: the 'binary'
                    \* fallback of the catch block is never taken
                    Decoded(fromBase64(response.value.chars))
                ELSE IF response.value.type = "buffer" THEN
                    Decoded(response.value.chars)
                ELSE Rejected("UnsupportedPayload")
            ELSE IF Truthy(response.data) THEN
                Decoded(fromBase64(response.data.chars))
            ELSE Rejected("NoData")
    IN
    IF videoBuffer.ok /\ Len(videoBuffer.buf) = 0 THEN Rejected("EmptyArtifact")
    ELSE videoBuffer

\* revision url: Buffer.from(response.value, 'binary')
NormalizeUrl(response) ==
    IF response.value.type = "string" THEN Decoded(fromBinary(response.value.chars))
    ELSE IF response.value.type = "buffer" THEN Decoded(response.value.chars)
    ELSE Rejected("TypeError")

Normalize(r, response) ==
    IF r = "cdp" THEN NormalizeCdp(response) ELSE NormalizeUrl(response)

\* browser_video_stop({returnVideo, returnBase64, forceBase64, maxWaitSeconds})
InvokeStop(s) ==
    \E a \in scope.stopArgs :
        \* revision cdp has neither returnBase64 nor maxWaitSeconds; only a Context
        \* stop reads maxWaitSeconds
        /\ rev = "cdp" => (~a.returnBase64 /\ a.maxWait = 1)
        /\ (videoRecording = NULL \/ recs[videoRecording].kind # "context")
               => a.maxWait = 1
        /\ Invoke(s, "stop", "", FALSE, a.returnVideo, a.returnBase64, a.forceBase64,
                  a.maxWait)

\* videoStop.action up to its first await: the session the handler read decides
StopAction(s) ==
    LET c == call[s]
        videoInfo == c.info
    IN
    /\ c.pc = "stop"
    /\ IF videoInfo = NULL THEN
           Return(s, c, "NotActive", "NotActive")
       ELSE
           /\ call' = [call EXCEPT
                  ![s].h = recs[videoInfo].h,
                  ![s].pc = IF recs[videoInfo].kind = "browserless" THEN "t_send"
                            ELSE IF recs[videoInfo].kind = "screencast" THEN "t_sc_send"
                            ELSE "t_std"]
           /\ UNCHANGED log
    /\ UNCHANGED << rev, config, scope, http, currentTab, videoRecording, recs, storedVideos, cdp,
                    files, dirs, now, nframes >>

\* Proprietary stop: Browserless.stopRecording answers or fails; the answer is
\* normalised, written to videos-<now>/<requestedFilename> and checked
StopSend(s) ==
    LET c == call[s]
        requestedFilename == recs[c.info].name
        actualVideoPath == Path("videos", now, requestedFilename)
    IN
    /\ c.pc = "t_send"
    /\ \E outcome \in {"error", "answer"}, response \in scope.responses,
          written \in BOOLEAN :
        LET n == Normalize(rev, response)
            failed == outcome = "error" \/ ~n.ok \/ ~written
        IN
        /\ cdp[c.h].detached => outcome = "error"
        /\ outcome = "error"
               => (response = CHOOSE r \in scope.responses : TRUE) /\ written
        /\ ~n.ok => written
        /\ cdp' = IF outcome = "answer" THEN [cdp EXCEPT ![c.h].recording = FALSE]
                  ELSE cdp
        /\ IF failed THEN
               /\ UNCHANGED << files, dirs >>
               /\ IF rev = "cdp" THEN
                      \* the catch of the Browserless branch
                      /\ call' = [call EXCEPT ![s] = [c EXCEPT
                             !.pc = "t_fail",
                             !.fault = outcome = "error" \/ ~written,
                             !.next = IF outcome = "error" THEN "ChannelError"
                                      ELSE IF ~n.ok THEN n.error ELSE "WriteError"]]
                      /\ UNCHANGED log
                  ELSE
                      \* revision url: the outer catch returns
                      Return(s, [c EXCEPT !.fault = outcome = "error" \/ ~written],
                             "StopError",
                             IF outcome = "error" THEN "ChannelError"
                             ELSE IF ~n.ok THEN n.error ELSE "WriteError")
           ELSE
               /\ dirs' = dirs \cup {DirOf(actualVideoPath)}
               /\ files' = WriteFile(files, File(actualVideoPath, n.buf))
               /\ call' = [call EXCEPT ![s] = [c EXCEPT
                      !.pc = "t_detach", !.buf = n.buf, !.path = actualVideoPath]]
               /\ UNCHANGED log
    /\ UNCHANGED << rev, config, scope, http, currentTab, videoRecording, recs, storedVideos, now,
                    nframes >>

\* Proprietary and FrameCapture stop: the cdpSession.detach() of the success path
StopDetach(s) ==
    LET c == call[s]
    IN
    /\ c.pc = "t_detach"
    /\ \E ok \in BOOLEAN :
        /\ cdp[c.h].detached => ~ok
        /\ Detach(c.h, ok)
        /\ IF ok THEN
               /\ call' = [call EXCEPT ![s] = [c EXCEPT !.pc = "finish"]]
               /\ UNCHANGED log
           ELSE IF rev = "cdp" THEN
               /\ call' = [call EXCEPT ![s] = [c EXCEPT
                      !.pc = "t_fail", !.fault = TRUE, !.next = "DetachError"]]
               /\ UNCHANGED log
           ELSE
               Return(s, [c EXCEPT !.fault = TRUE], "StopError", "DetachError")
    /\ UNCHANGED << rev, config, scope, http, currentTab, videoRecording, recs, storedVideos, files,
                    dirs, now, nframes >>

\* revision cdp: the catch of the Browserless or screencast branch of stop detaches,
\* ignoring a failure, and returns; context._videoRecording is left as it is
StopCleanup(s) ==
    LET c == call[s] IN
    /\ c.pc = "t_fail"
    /\ \E ok \in BOOLEAN :
        /\ cdp[c.h].detached => ~ok
        /\ Detach(c.h, ok)
    /\ Return(s, c, "StopFailed", c.next)
    /\ UNCHANGED << rev, config, scope, http, currentTab, videoRecording, recs, storedVideos, files,
                    dirs, now, nframes >>

\* FrameCapture stop: stopStandardScreencast (Page.stopScreencast) resolves or
\* rejects; with frames buffered the frame directory screencast-<now> is made
\* a test that lets an empty list of frames through
AnyFrames(frames) == TRUE

\* if (frames && frames.length > 0)
HasFrames(frames) == Len(frames) > 0

ScreencastStop(s) ==
    LET c == call[s]
        frames == recs[c.info].frames
        framesDir == Path("screencast", now, "")
    IN
    /\ c.pc = "t_sc_send"
    /\ \E ok \in BOOLEAN, made \in BOOLEAN :
        /\ cdp[c.h].detached => ~ok
        /\ (~ok \/ ~HasFrames(frames)) => made
        /\ cdp' = IF ok THEN [cdp EXCEPT ![c.h].casting = FALSE] ELSE cdp
        /\ IF ok /\ HasFrames(frames) /\ made THEN
               /\ dirs' = dirs \cup {DirOf(framesDir)}
               /\ call' = [call EXCEPT ![s] = [c EXCEPT
                      !.pc = "t_sc_write", !.path = framesDir, !.i = 0]]
           ELSE
               /\ call' = [call EXCEPT ![s] = [c EXCEPT
                      !.pc = "t_fail", !.fault = ~ok \/ ~made,
                      !.next = IF ~ok THEN "ChannelError"
                               ELSE IF ~HasFrames(frames) THEN "NoFrames"
                               ELSE "WriteError"]]
               /\ UNCHANGED dirs
    /\ UNCHANGED << rev, config, scope, http, currentTab, videoRecording, recs, storedVideos, files,
                    now, nframes, log >>

\* FrameCapture stop: one pass of the loop over frames (frame i is written), or,
\* past the last frame, frames.json is written
\* an index that numbers the frames from one
FrameIndexFromOne(ts, frames, n) ==
    [frameCount |-> Len(frames),
     frames |-> [k \in 1..n |-> [filename |-> FramePath(ts, k - 1),
                                 timestamp |-> frames[k].timestamp,
                                 index |-> k]]]

\* the content of frames.json, n being the number of frame files written
FrameIndex(ts, frames, n) ==
    [frameCount |-> Len(frames),
     frames |-> [k \in 1..n |-> [filename |-> FramePath(ts, k - 1),
                                 timestamp |-> frames[k].timestamp,
                                 index |-> k - 1]]]

ScreencastWrite(s) ==
    LET c == call[s]
        frames == recs[c.info].frames
        framesDir == c.path
    IN
    /\ c.pc = "t_sc_write"
    /\ \E written \in BOOLEAN :
        IF ~written THEN
            /\ call' = [call EXCEPT ![s].pc = "t_fail", ![s].fault = TRUE,
                                    ![s].next = "WriteError"]
            /\ UNCHANGED files
        ELSE IF c.i < Len(frames) THEN
            /\ files' = WriteFile(files, File(FramePath(framesDir.ts, c.i),
                                              << frames[c.i + 1].id >>))
            /\ call' = [call EXCEPT ![s].i = @ + 1]
        ELSE
            /\ files' = WriteFile(files,
                   [path |-> Path("screencast", framesDir.ts, "frames.json"),
                    bytes |-> <<>>,
                    manifest |-> FrameIndex(framesDir.ts, frames, c.i)])
            /\ call' = [call EXCEPT ![s].pc = "t_detach"]
    /\ UNCHANGED << rev, config, scope, http, currentTab, videoRecording, recs, storedVideos, cdp,
                    dirs, now, nframes, log >>

\* Context stop: page.video()?.path() yields the path of the host's recording or
\* nothing. Revision cdp then sleeps and retries; revision url runs its
\* finalization attempts when the file is not there yet, then waits for the file.
ContextStop(s) ==
    LET c == call[s]
        tab == recs[c.info].tab
    IN
    /\ c.pc = "t_std"
    /\ \E got \in BOOLEAN :
        LET actualVideoPath == IF got THEN HostPath(tab) ELSE NoPath IN
        call' = [call EXCEPT
            ![s].path = actualVideoPath,
            ![s].i = 0,
            ![s].pc = IF rev = "cdp" THEN "finish"
                      ELSE IF ~got \/ ~Exists(actualVideoPath) THEN "t_attempt"
                      ELSE "wait",
            ![s].next = "finish"]
    /\ UNCHANGED << rev, config, scope, http, currentTab, videoRecording, recs, storedVideos, cdp,
                    files, dirs, now, nframes, log >>

\* revision url: finalizationAttempts[i]: navigate to about:blank; open a new page
\* and close the recorded one; wait. An attempt counts when it yields a path whose
\* file exists.
\* the time the first i attempts sleep, in polls of 500 ms: 2 s, 3 s and 5 s
FinalizationSleep(i) == IF i = 0 THEN 0 ELSE IF i = 1 THEN 4 ELSE IF i = 2 THEN 10 ELSE 20

FinalizationAttempt(s) ==
    LET c == call[s]
        tab == recs[c.info].tab
        effect == IF c.i = 0 THEN {"goto"}
                  ELSE IF c.i = 1 THEN {"newPage", "closePage"} ELSE {}
    IN
    /\ c.pc = "t_attempt"
    /\ \E got \in BOOLEAN :
        LET found == got /\ Exists(HostPath(tab))
            actualVideoPath == IF found THEN HostPath(tab) ELSE c.path
        IN
        call' = [call EXCEPT
            ![s].path = actualVideoPath,
            ![s].i = @ + 1,
            ![s].acts = @ \cup effect,
            ![s].pc = IF ~found /\ c.i < 2 THEN "t_attempt"
                      ELSE IF actualVideoPath # NoPath THEN "wait"
                      ELSE "finish"]
    /\ UNCHANGED << rev, config, scope, http, currentTab, videoRecording, recs, storedVideos, cdp,
                    files, dirs, now, nframes, log >>

\* ------------------------------------------------- waitForVideoFileComplete
\* Time inside the wait is counted in polls of the normal mode (500 ms).
\* thresholds that are one sample short
RequiredStableCountShort(isForced) == IF isForced THEN 4 ELSE 2
RequiredStableCount(isForced) == IF isForced THEN 5 ELSE 3
WaitInterval(isForced) == IF isForced THEN 2 ELSE 1
\* a bound twice as long as the caller's
MaxWaitUnitsDouble(maxWaitSeconds) == 4 * maxWaitSeconds
MaxWaitUnits(maxWaitSeconds) == 2 * maxWaitSeconds

\* one evaluation of the loop condition and, when it holds, one pass of the loop
WaitPoll(s) ==
    LET c == call[s]
        isForced == c.forceBase64
        present == Exists(c.path) /\ c.path.name # ""
        currentSize == IF present THEN Len(FileAt(files, c.path).bytes) ELSE 0
        stable == present /\ currentSize > 0 /\ currentSize = c.lastSize
        sample == IF present THEN currentSize ELSE Unreadable
        \* the record of what the polls observed: the last sample, the number of
        \* samples in a row that equal their predecessor and are not zero, and
        \* whether the samples so far are sizes that never went down
        polled == [c EXCEPT !.seen = sample,
                            !.run = IF sample > 0 /\ sample = c.seen THEN @ + 1 ELSE 0,
                            !.regular = @ /\ sample # Unreadable /\ sample >= c.seen]
        slept == [polled EXCEPT !.elapsed = @ + WaitInterval(isForced)]
    IN
    /\ c.pc = "wait"
    /\ call' = [call EXCEPT ![s] =
           IF ~(c.elapsed < MaxWaitUnits(c.maxWait)) THEN
               [c EXCEPT !.pc = c.next]
           ELSE IF ~present \/ currentSize = 0 THEN slept
           ELSE IF stable THEN
               IF c.stableCount + 1 >= RequiredStableCount(isForced)
               THEN [polled EXCEPT !.stableCount = @ + 1, !.pc = c.next]
               ELSE [slept EXCEPT !.stableCount = @ + 1, !.lastSize = currentSize]
           ELSE [slept EXCEPT !.stableCount = 0, !.lastSize = currentSize]]
    /\ UNCHANGED << rev, config, scope, http, currentTab, videoRecording, recs, storedVideos, cdp,
                    files, dirs, now, nframes, log >>

\* Something else than the recorder changes the file a call is waiting for: it is
\* removed, emptied, or rewritten with n bytes.
FileChange ==
    /\ scope.volatile
    /\ \E s \in Slots, n \in Unreadable..Len(HostVideo) :
        LET p == call[s].path IN
        /\ call[s].pc = "wait"
        /\ p.name # ""
        /\ files' = IF n = Unreadable THEN { f \in files : f.path # p }
                    ELSE WriteFile(files, File(p, SubSeq(HostVideo, 1, n)))
        /\ files' # files
    /\ UNCHANGED << rev, config, scope, http, currentTab, videoRecording, recs, storedVideos, cdp,
                    dirs, now, nframes, call, log >>

\* ---------------------------------------------------------------- responses
\* What a response carries besides its text: a resource with inline base64 data
\* (hasData), and the uri of the resource ("http", "file" or "none").
NoContent == [hasData |-> FALSE, data |-> <<>>, uri |-> "none"]
Inline(bytes, uri) == [hasData |-> TRUE, data |-> toBase64(bytes), uri |-> uri]
Locator(uri) == [hasData |-> FALSE, data |-> <<>>, uri |-> uri]

\* serverUrl ? `${serverUrl}/videos/${filename}` : `file://${path}`
VideoUrl(cfg) == IF cfg.http THEN "http" ELSE "file"

\* a read that returns the bytes of the file as they are, not encoded
readVideoFileAsText(fs, filePath, forceRead) ==
    IF ~(\E f \in fs : f.path = filePath) THEN
        [success |-> FALSE, base64 |-> <<>>, error |-> "ReadError"]
    ELSE
        LET videoBuffer == FileAt(fs, filePath).bytes IN
        IF Len(videoBuffer) = 0 /\ ~forceRead THEN
            [success |-> FALSE, base64 |-> <<>>, error |-> "Empty"]
        ELSE IF ~isValidWebMFile(videoBuffer) /\ ~forceRead THEN
            [success |-> FALSE, base64 |-> <<>>, error |-> "NotWebM"]
        ELSE
            [success |-> TRUE, base64 |-> videoBuffer, error |-> "none"]

\* readVideoFileAsBase64(filePath, forceRead)
readVideoFileAsBase64(fs, filePath, forceRead) ==
    IF ~(\E f \in fs : f.path = filePath) THEN
        [success |-> FALSE, base64 |-> <<>>, error |-> "ReadError"]
    ELSE
        LET videoBuffer == FileAt(fs, filePath).bytes IN
        IF Len(videoBuffer) = 0 /\ ~forceRead THEN
            [success |-> FALSE, base64 |-> <<>>, error |-> "Empty"]
        ELSE IF ~isValidWebMFile(videoBuffer) /\ ~forceRead THEN
            [success |-> FALSE, base64 |-> <<>>, error |-> "NotWebM"]
        ELSE
            [success |-> TRUE, base64 |-> toBase64(videoBuffer), error |-> "none"]

\* content that is inlined whenever either base64 flag is set
ContentUrlForced(cfg, fs, filePath, returnBase64, forceBase64, clientSupportsVideos) ==
    IF returnBase64 \/ forceBase64 THEN
        LET videoResult == readVideoFileAsBase64(fs, filePath, forceBase64) IN
        IF videoResult.success /\ Len(videoResult.base64) > 0
        THEN [hasData |-> TRUE, data |-> videoResult.base64, uri |-> VideoUrl(cfg)]
        ELSE NoContent
    ELSE Locator(VideoUrl(cfg))

\* revision url, stop and get: the content pushed for a file that was found
ContentUrl(cfg, fs, filePath, returnBase64, forceBase64, clientSupportsVideos) ==
    IF returnBase64 THEN
        LET includeVideoContent == forceBase64 \/ clientSupportsVideos
            videoResult == readVideoFileAsBase64(fs, filePath, forceBase64)
        IN
        IF includeVideoContent THEN
            IF videoResult.success /\ Len(videoResult.base64) > 0
            THEN [hasData |-> TRUE, data |-> videoResult.base64, uri |-> VideoUrl(cfg)]
            ELSE NoContent
        ELSE NoContent
    ELSE Locator(VideoUrl(cfg))

\* revision cdp, stop and get: the content pushed for a video file
ContentCdp(fs, filePath, forceBase64, clientSupportsVideos) ==
    LET includeVideoContent == forceBase64 \/ clientSupportsVideos IN
    IF includeVideoContent THEN
        IF ~(\E f \in fs : f.path = filePath) THEN NoContent   \* stat throws
        ELSE IF forceBase64 \/ Len(FileAt(fs, filePath).bytes) > 0
             THEN Inline(FileAt(fs, filePath).bytes, "file")
             ELSE NoContent
    ELSE NoContent

\* revision cdp, stop of a screencast: the first frame as a sample image
ContentScreencast(fs, ds, framesDir, returnVideo) ==
    LET indexPath == Path("screencast", framesDir.ts, "frames.json") IN
    IF framesDir # NoPath /\ ExistsIn(fs, ds, framesDir) /\ ExistsIn(fs, ds, indexPath) THEN
        LET frameIndex == FileAt(fs, indexPath).manifest IN
        IF returnVideo /\ Len(frameIndex.frames) > 0
               /\ ExistsIn(fs, ds, frameIndex.frames[1].filename)
        THEN Inline(FileAt(fs, frameIndex.frames[1].filename).bytes, "file")
        ELSE NoContent
    ELSE NoContent

\* the content of the response of a stop that reached its end
StopContent(r, cfg, fs, ds, kind, path, returnVideo, returnBase64, forceBase64, client) ==
    LET exists == path # NoPath /\ ExistsIn(fs, ds, path) IN
    IF r = "cdp" THEN
        IF kind # "screencast"
               /\ ((returnVideo /\ exists) \/ (forceBase64 /\ path # NoPath))
        THEN ContentCdp(fs, path, forceBase64, client)
        ELSE IF kind = "screencast" THEN ContentScreencast(fs, ds, path, returnVideo)
        ELSE NoContent
    ELSE
        IF returnVideo /\ exists
        THEN ContentUrl(cfg, fs, path, returnBase64, forceBase64, client)
        ELSE NoContent

\* a stop that forgets to delete the reference
KeepVideoRecording == videoRecording

\* delete context._videoRecording
ClearVideoRecording == NULL

\* a store that takes the path whether or not its file is there
StoreVideoUnchecked(stored, requestedFilename, actualVideoPath) ==
    [stored EXCEPT ![requestedFilename] = actualVideoPath]

\* if (actualVideoPath && fs.existsSync(actualVideoPath)) _storedVideos.set(...)
StoreVideo(stored, requestedFilename, actualVideoPath) ==
    IF actualVideoPath # NoPath /\ Exists(actualVideoPath)
    THEN [stored EXCEPT ![requestedFilename] = actualVideoPath]
    ELSE stored

\* The end of videoStop.action: the reference is deleted, the path is stored under
\* the requested file name when the file exists, and the response is built.
StopFinish(s) ==
    LET c == call[s]
        requestedFilename == recs[c.info].name
        actualVideoPath == c.path
        exists == actualVideoPath # NoPath /\ Exists(actualVideoPath)
    IN
    /\ c.pc = "finish"
    /\ videoRecording' = ClearVideoRecording
    /\ storedVideos' = StoreVideo(storedVideos, requestedFilename, actualVideoPath)
    /\ \E client \in BOOLEAN :
        LET content == StopContent(rev, config, files, dirs, recs[c.info].kind,
                                   actualVideoPath, c.returnVideo, c.returnBase64,
                                   c.forceBase64, client)
            e == Entry(c, "Stopped", IF exists THEN "Saved" ELSE "NotFound")
        IN
        ReturnEntry(s, WithContent(c, e, content, actualVideoPath, client))
    /\ UNCHANGED << rev, config, scope, http, currentTab, recs, cdp, files, dirs, now, nframes >>

\* ---------------------------------------------------------- HTTP transport
\* A request path is the sequence of the segments of req.url ("/videos/a.webm" is
\* << "videos", "a.webm" >>, "/videos/" is << "videos", "" >>); a segment is
\* spelled in character codes.
Chars(seg) ==
    CASE seg = ""           -> << >>
      [] seg = "."          -> << 46 >>
      [] seg = ".."         -> << 46, 46 >>
      [] seg = "%2E%2e"     -> << 37, 50, 69, 37, 50, 101 >>
      [] seg = "a..b"       -> << 97, 46, 46, 98 >>
      [] seg = "a.webm"     -> << 97, 46, 119, 101, 98, 109 >>
      [] seg = "b"          -> << 98 >>
      [] seg = "page1.webm" -> << 112, 97, 103, 101, 49, 46, 119, 101, 98, 109 >>
      [] seg = "page2.webm" -> << 112, 97, 103, 101, 50, 46, 119, 101, 98, 109 >>
      [] seg = "videos"     -> << 118, 105, 100, 101, 111, 115 >>
      [] seg = "mcp"        -> << 109, 99, 112 >>
      [] OTHER              -> << 115, 115, 101 >>

\* s.includes(sub)
Includes(s, sub) ==
    \E i \in 1..(Len(s) - Len(sub) + 1) : SubSeq(s, i, i + Len(sub) - 1) = sub

\* ASCII lower case
Lower(s) == [i \in 1..Len(s) |-> IF s[i] >= 65 /\ s[i] <= 90 THEN s[i] + 32 ELSE s[i]]

\* new URL(...): the single-dot and double-dot path segments of the URL standard
IsSingleDot(seg) == Lower(Chars(seg)) \in { << 46 >>, << 37, 50, 101 >> }
IsDoubleDot(seg) ==
    Lower(Chars(seg)) \in { << 46, 46 >>, << 46, 37, 50, 101 >>, << 37, 50, 101, 46 >>,
                            << 37, 50, 101, 37, 50, 101 >> }

RECURSIVE URLPath(_, _)
\* new URL(`http://localhost${req.url}`).pathname, as segments: dot segments are
\* removed, a double-dot segment also removes the segment before it
URLPath(segs, path) ==
    IF Len(segs) = 0 THEN path
    ELSE
        LET seg == Head(segs)
            last == Len(segs) = 1
            shortened == IF Len(path) > 0 THEN SubSeq(path, 1, Len(path) - 1) ELSE path
        IN
        IF IsDoubleDot(seg)
        THEN URLPath(Tail(segs), IF last THEN Append(shortened, "") ELSE shortened)
        ELSE IF IsSingleDot(seg)
        THEN URLPath(Tail(segs), IF last THEN Append(path, "") ELSE path)
        ELSE URLPath(Tail(segs), Append(path, seg))

RECURSIVE Spell(_)
\* the segments joined by '/'
Spell(segs) ==
    IF Len(segs) = 0 THEN << >>
    ELSE IF Len(segs) = 1 THEN Chars(segs[1])
    ELSE Chars(segs[1]) \o << 47 >> \o Spell(Tail(segs))

\* url.pathname.startsWith('/videos/')
IsVideoRequest(pathname) == Len(pathname) >= 2 /\ pathname[1] = "videos"

\* a path that leaves its videos-* directory
Outside == [kind |-> "outside", ts |-> 0, name |-> "", idx |-> 0]

RECURSIVE PathJoin(_, _)
\* path.join(dir, videoPath), relative to dir: empty and '.' segments vanish, a '..'
\* segment removes the segment before it and, with none before it, leaves dir
PathJoin(segs, stack) ==
    IF Len(segs) = 0 THEN stack
    ELSE IF Chars(Head(segs)) \in { << >>, << 46 >> } THEN PathJoin(Tail(segs), stack)
    ELSE IF Chars(Head(segs)) = << 46, 46 >> THEN
        IF Len(stack) = 0 \/ stack[Len(stack)] = ".." THEN PathJoin(Tail(segs), Append(stack, ".."))
        ELSE PathJoin(Tail(segs), SubSeq(stack, 1, Len(stack) - 1))
    ELSE PathJoin(Tail(segs), Append(stack, Head(segs)))

\* path.join(testResultsDir, videoDir.name, videoPath): the directory itself, a
\* file in it, a path outside it, or something below a file or a subdirectory of
\* it (which never exists: the directories are flat)
SearchPath(ts, videoPath) ==
    LET parts == PathJoin(videoPath, << >>) IN
    IF Len(parts) = 0 THEN Path("videos", ts, "")
    ELSE IF parts[1] = ".." THEN Outside
    ELSE IF Len(parts) = 1 /\ videoPath[Len(videoPath)] # "" THEN Path("videos", ts, parts[1])
    ELSE [kind |-> "nested", ts |-> ts, name |-> parts[1], idx |-> 0]

\* a name check that only refuses the empty name
EmptyVideoPath(videoPath) == Len(Spell(videoPath)) = 0

\* url.pathname.replace('/videos/', ''): empty, or holding '..'
InvalidVideoPath(videoPath) ==
    Len(Spell(videoPath)) = 0 \/ Includes(Spell(videoPath), << 46, 46 >>)

RECURSIVE FindVideoFile(_, _, _, _)
\* the loop over the videos-* directories, newest first, from timestamp ts down;
\* the directories above a videos-* directory exist
FindVideoFile(fs, ds, videoPath, ts) ==
    IF ts < 0 THEN NoPath
    ELSE IF [kind |-> "videos", ts |-> ts] \in ds
            /\ \/ SearchPath(ts, videoPath) = Outside
               \/ ExistsIn(fs, ds, SearchPath(ts, videoPath))
         THEN SearchPath(ts, videoPath)
    ELSE FindVideoFile(fs, ds, videoPath, ts - 1)

\* ---- the Range header
NaN == -1
IsDigit(c) == c >= 48 /\ c <= 57

RECURSIVE Decimal(_)
\* the decimal spelling of a number, as a client writes it into a header
Decimal(n) == IF n < 10 THEN << 48 + n >> ELSE Decimal(n \div 10) \o << 48 + (n % 10) >>

BytesEq == << 98, 121, 116, 101, 115, 61 >>
NoRange == << >>
RangeHeader(a, b) == BytesEq \o Decimal(a) \o << 45 >> \o Decimal(b)     \* bytes=a-b
RangeFrom(a) == BytesEq \o Decimal(a) \o << 45 >>                        \* bytes=a-
RangeSuffix(n) == BytesEq \o << 45 >> \o Decimal(n)                      \* bytes=-n
RangeWords == BytesEq \o << 120, 45, 121 >>                              \* bytes=x-y

\* s.replace(/bytes=/, ''): the first occurrence is removed
RemoveBytesEq(s) ==
    IF Includes(s, BytesEq) THEN
        LET i == CHOOSE k \in 1..Len(s) :
                    /\ k + 5 <= Len(s) /\ SubSeq(s, k, k + 5) = BytesEq
                    /\ \A j \in 1..(k - 1) : SubSeq(s, j, j + 5) # BytesEq
        IN SubSeq(s, 1, i - 1) \o SubSeq(s, i + 6, Len(s))
    ELSE s

RECURSIVE SplitDash(_)
\* s.split('-')
SplitDash(s) ==
    IF ~Includes(s, << 45 >>) THEN << s >>
    ELSE LET i == CHOOSE k \in 1..Len(s) : s[k] = 45 /\ \A j \in 1..(k - 1) : s[j] # 45
         IN << SubSeq(s, 1, i - 1) >> \o SplitDash(SubSeq(s, i + 1, Len(s)))

RECURSIVE DigitsValue(_, _)
DigitsValue(s, acc) ==
    IF Len(s) = 0 \/ ~IsDigit(s[1]) THEN acc
    ELSE DigitsValue(Tail(s), 10 * acc + (s[1] - 48))

RECURSIVE parseInt(_)
\* parseInt(s, 10): leading blanks and a '+' are skipped, the leading digits are
\* read, and there is no number (NaN) without a digit. A part of split('-') holds no '-'.
parseInt(s) ==
    IF Len(s) = 0 THEN NaN
    ELSE IF s[1] = 32 THEN parseInt(Tail(s))
    ELSE IF s[1] = 43 THEN (IF Len(s) > 1 /\ IsDigit(s[2]) THEN DigitsValue(Tail(s), 0) ELSE NaN)
    ELSE IF IsDigit(s[1]) THEN DigitsValue(s, 0)
    ELSE NaN

\* ---- the answer
NoContentRange == [form |-> "none", start |-> 0, end |-> 0, size |-> 0]
ContentRange(start, end, size) == [form |-> "range", start |-> start, end |-> end, size |-> size]
ContentRangeStar(size) == [form |-> "star", start |-> 0, end |-> 0, size |-> size]

\* An answer: the status (0: the request went to the MCP handlers), the
\* Content-Length and Content-Range headers (-1, NoContentRange: not sent), the
\* file the body is streamed from, whether the filesystem was read, and whether
\* the stream fails after the head was written.
Answer(status, contentLength, contentRange, served, touched, streamError) ==
    [status |-> status, contentLength |-> contentLength, contentRange |-> contentRange,
     served |-> served, touched |-> touched, streamError |-> streamError]

\* a range check that lets the byte one past the end through
RangeBeyond(start, end, fileSize) ==
    (start # NaN /\ start > fileSize) \/ (end # NaN /\ end > fileSize)

\* if (start >= fileSize || end >= fileSize): a comparison with NaN is false
RangeNotSatisfiable(start, end, fileSize) ==
    (start # NaN /\ start >= fileSize) \/ (end # NaN /\ end >= fileSize)

\* a stream that takes every start and end
ReadStreamNeverThrows(start, end) == FALSE

\* fs.createReadStream(path, {start, end}) throws unless start and end are numbers
\* with start <= end
ReadStreamThrows(start, end) == start = NaN \/ end = NaN \/ start > end

\* serveVideoFile(req, res, url); dirSize is what stat reports for a directory
serveVideoFile(fs, ds, pathname, range, dirSize) ==
    LET videoPath == Tail(pathname)
        videoFilePath == FindVideoFile(fs, ds, videoPath, MaxTime)
        isDir == videoFilePath.name = ""    \* a directory: stat answers, the stream fails
        fileSize == IF isDir THEN dirSize ELSE Len(FileAt(fs, videoFilePath).bytes)
        parts == SplitDash(RemoveBytesEq(range))
        start == parseInt(parts[1])
        end == IF Len(parts) >= 2 /\ Len(parts[2]) > 0 THEN parseInt(parts[2])
               ELSE fileSize - 1
    IN
    IF InvalidVideoPath(videoPath) THEN
        Answer(400, -1, NoContentRange, NoPath, FALSE, FALSE)
    ELSE IF videoFilePath = NoPath THEN
        Answer(404, -1, NoContentRange, NoPath, TRUE, FALSE)
    ELSE IF Len(range) > 0 THEN
        IF RangeNotSatisfiable(start, end, fileSize) THEN
            Answer(416, -1, ContentRangeStar(fileSize), NoPath, TRUE, FALSE)
        ELSE IF ReadStreamThrows(start, end) THEN
            Answer(500, -1, NoContentRange, NoPath, TRUE, FALSE)
        ELSE
            Answer(206, (end - start) + 1, ContentRange(start, end, fileSize),
                   videoFilePath, TRUE, isDir)
    ELSE
        Answer(200, fileSize, NoContentRange, videoFilePath, TRUE, isDir)

\* httpServer.on('request'): requests under /videos/ go to serveVideoFile, the
\* others to the MCP handlers
OnRequest(fs, ds, url, range, dirSize) ==
    LET pathname == URLPath(url, << >>) IN
    IF IsVideoRequest(pathname) THEN serveVideoFile(fs, ds, pathname, range, dirSize)
    ELSE Answer(0, -1, NoContentRange, NoPath, FALSE, FALSE)

NoExchange ==
    [url |-> << >>, range |-> NoRange,
     answer |-> Answer(0, -1, NoContentRange, NoPath, FALSE, FALSE)]

\* A client sends GET <url> with a Range header (or none) to the HTTP server. The
\* handler is synchronous: it runs between the steps of the tool calls.
HttpRequest ==
    /\ config.http
    /\ \E url \in scope.urls, range \in scope.ranges, dirSize \in {0, 1} :
        /\ dirSize = 1 => SearchPath(0, Tail(URLPath(url, << >>))).name = ""
        /\ http' = [url |-> url, range |-> range,
                    answer |-> OnRequest(files, dirs, url, range, dirSize)]
    /\ UNCHANGED << rev, config, scope, currentTab, videoRecording, recs, storedVideos, cdp,
                    files, dirs, now, nframes, call, log >>

\* ------------------------------------------------------- browser_video_get
IsWebm(name) == name \in {"a.webm", "page1.webm", "page2.webm"}

\* outputFile(config, filename): a file of that name in the output directory
OutputFile(name) == Path("out", 0, name)

\* a file name a caller passes, split at its slashes
NameSegments(name) == IF name = "../b" THEN << "..", "b" >> ELSE << name >>

RECURSIVE ScanVideoDirs(_, _, _, _)
\* The loop over the videos-* directories, newest first, from timestamp ts down:
\* the paths the search may end with (readdir orders the .webm files of a
\* directory as the filesystem does), or {} when the search finds nothing.
ScanVideoDirs(fs, ds, name, ts) ==
    IF ts < 0 THEN {}
    ELSE IF [kind |-> "videos", ts |-> ts] \notin ds THEN ScanVideoDirs(fs, ds, name, ts - 1)
    ELSE
        LET searchPath == SearchPath(ts, NameSegments(name))
            webmFiles == { f.path : f \in { g \in fs : /\ DirOf(g.path) = [kind |-> "videos", ts |-> ts]
                                                      /\ IsWebm(g.path.name) } }
        IN
        IF ExistsIn(fs, ds, searchPath) THEN {searchPath}
        ELSE IF webmFiles # {} /\ IsWebm(name) THEN webmFiles
        ELSE ScanVideoDirs(fs, ds, name, ts - 1)

RECURSIVE SearchProbes(_, _, _, _)
\* The paths that loop joins from the file name and tests with fs.existsSync.
SearchProbes(fs, ds, name, ts) ==
    IF ts < 0 THEN {}
    ELSE IF [kind |-> "videos", ts |-> ts] \notin ds THEN SearchProbes(fs, ds, name, ts - 1)
    ELSE {SearchPath(ts, NameSegments(name))}
         \cup (IF \/ ExistsIn(fs, ds, SearchPath(ts, NameSegments(name)))
                  \/ /\ IsWebm(name)
                     /\ \E g \in fs : /\ DirOf(g.path) = [kind |-> "videos", ts |-> ts]
                                      /\ IsWebm(g.path.name)
               THEN {} ELSE SearchProbes(fs, ds, name, ts - 1))

\* storedVideos.has(filename) with a file that is still there
StoredHit(stored, fs, ds, name) ==
    name \in DOMAIN stored /\ stored[name] # NoPath /\ ExistsIn(fs, ds, stored[name])

\* the search paths a lookup tests: none when the store or the output directory
\* has the file
Probed(stored, fs, ds, name) ==
    IF StoredHit(stored, fs, ds, name) \/ ExistsIn(fs, ds, OutputFile(name)) THEN {}
    ELSE SearchProbes(fs, ds, name, MaxTime)

\* The paths videoGet.action may arrive at for a file name; NoPath: not found.
Resolve(stored, fs, ds, name) ==
    IF StoredHit(stored, fs, ds, name) THEN {stored[name]}
    ELSE IF ExistsIn(fs, ds, OutputFile(name)) THEN {OutputFile(name)}
    ELSE LET found == ScanVideoDirs(fs, ds, name, MaxTime) IN
         IF found = {} THEN {NoPath} ELSE found

\* browser_video_get({filename, returnContent, returnBase64, forceBase64, maxWaitSeconds})
InvokeGet(s) ==
    \E name \in scope.names \cup scope.lookups, a \in scope.getArgs :
        /\ rev = "cdp" => ~a.returnBase64
        /\ Invoke(s, "get", name, FALSE, a.returnVideo, a.returnBase64, a.forceBase64, 1)

\* the response of a get for the file it found
GetContent(r, cfg, fs, filePath, returnContent, returnBase64, forceBase64, client) ==
    IF ~returnContent THEN NoContent
    ELSE IF r = "cdp" THEN ContentCdp(fs, filePath, forceBase64, client)
    ELSE ContentUrl(cfg, fs, filePath, returnBase64, forceBase64, client)

GetEntry(c, filePath, client) ==
    LET content == GetContent(rev, config, files, filePath, c.returnVideo,
                              c.returnBase64, c.forceBase64, client)
        e == Entry(c, "Found", "Found")
    IN WithContent(c, e, content, filePath, client)

\* videoGet.action: the lookup; revision cdp answers at once, revision url first
\* waits for the file to be complete
GetAction(s) ==
    LET c == [call[s] EXCEPT !.probed = Probed(storedVideos, files, dirs, call[s].name)] IN
    /\ c.pc = "get"
    /\ \E filePath \in Resolve(storedVideos, files, dirs, c.name), client \in BOOLEAN :
        IF filePath = NoPath THEN Return(s, c, "NotFound", "NotFound")
        ELSE IF rev = "cdp" THEN ReturnEntry(s, GetEntry(c, filePath, client))
        ELSE /\ call' = [call EXCEPT ![s] = [c EXCEPT !.path = filePath, !.pc = "wait",
                                                       !.next = "get_resp"]]
             /\ UNCHANGED log
    /\ UNCHANGED << rev, config, scope, http, currentTab, videoRecording, recs, storedVideos, cdp,
                    files, dirs, now, nframes >>

\* revision url: the response of a get after the wait
GetRespond(s) ==
    LET c == call[s] IN
    /\ c.pc = "get_resp"
    /\ \E client \in BOOLEAN : ReturnEntry(s, GetEntry(c, c.path, client))
    /\ UNCHANGED << rev, config, scope, http, currentTab, videoRecording, recs, storedVideos, cdp,
                    files, dirs, now, nframes >>

\* ---------------------------------------------------- browser_video_status
InvokeStatus(s) == Invoke(s, "status", "", FALSE, FALSE, FALSE, FALSE, 0)

\* videoStatus.action: reports the session the handler read
StatusAction(s) ==
    LET c == call[s]
        videoInfo == c.info
    IN
    /\ c.pc = "status"
    /\ IF videoInfo = NULL THEN Return(s, c, "Inactive", "NoActive")
       ELSE Return(s, c, "Active", "Active")
    /\ UNCHANGED << rev, config, scope, http, currentTab, videoRecording, recs, storedVideos, cdp,
                    files, dirs, now, nframes >>

\* ---------------------------------------------------------------- behaviours
\* The state of a connection before its first tool call.
\* The state after construction, with test-results as one of disks: the files an
\* earlier process of the server left there.
InitOn(runs, disks) ==
    /\ \E r \in runs : rev = r.rev /\ config = r.config /\ scope = r.scope
    /\ http = NoExchange
    /\ currentTab = 1
    /\ videoRecording = NULL
    /\ recs = <<>>
    /\ storedVideos = [n \in Names |-> NoPath]
    /\ cdp = <<>>
    /\ files \in disks
    /\ dirs = { DirOf(f.path) : f \in files }
    /\ now = 0
    /\ nframes = 0
    /\ call = [s \in Slots |-> IdleCall]
    /\ log = [hist |-> <<>>, last |-> Entry(IdleCall, "none", "none")]

\* the same with an empty test-results directory
InitOf(runs) == InitOn(runs, {{}})

\* The arguments of a stop or get call.
Args(rv, rb, fb, mw) ==
    [returnVideo |-> rv, returnBase64 |-> rb, forceBase64 |-> fb, maxWait |-> mw]
AllArgs == { Args(rv, rb, fb, mw) : rv \in BOOLEAN, rb \in BOOLEAN, fb \in BOOLEAN,
                                    mw \in {1, 2} }
DefaultArgs == Args(TRUE, FALSE, FALSE, 1)
Ops == {"start", "stop", "get", "status"}

\* One client calling at a time, with every argument and every backend answer.
Sequential ==
    [slots |-> {1}, calls |-> MaxCalls - 1, tabs |-> {1}, names |-> Names,
     time |-> MaxTime, ops |-> Ops, useScreencast |-> BOOLEAN, stopArgs |-> AllArgs,
     getArgs |-> { a \in AllArgs : a.maxWait = 1 }, responses |-> Responses,
     lookups |-> {}, urls |-> {}, ranges |-> {}, volatile |-> FALSE]

Run(r, c, sc) == [rev |-> r, config |-> c, scope |-> sc]

\* The same client when the browser gives one answer and no screencast is asked for.
Plain == [Sequential EXCEPT !.useScreencast = {FALSE}, !.responses = {GoodResponse}]

\* Every configuration; the local browser of revision cdp has two tabs.
Runs ==
    { Run("cdp", c, IF c.cdpEndpoint.present THEN Sequential
                    ELSE [Sequential EXCEPT !.tabs = Tabs]) : c \in CdpConfigs }
    \cup { Run("cdp", c, Plain) : c \in CdpVariants }
    \cup { Run("url", c, Sequential) : c \in UrlConfigs }
    \cup { Run("url", c, Plain) : c \in UrlVariants }

\* A client of the HTTP transport that also fetches the video it recorded.
Glance ==
    [Plain EXCEPT !.calls = 2, !.names = {"a.webm"}, !.ops = {"start", "stop"},
                  !.stopArgs = {DefaultArgs},
                  !.urls = { << "videos", "a.webm" >> }, !.ranges = {NoRange}]
GlanceRun == Run("url", Config(RegularEndpoint, FALSE, TRUE, TRUE), Glance)

Init == InitOf(Runs \cup {GlanceRun})

\* One run for each backend. The clock advances in the runs of revision url over an endpoint.
BackendRuns(sc) ==
    { Run("cdp", ProprietaryConfig, [sc EXCEPT !.useScreencast = {FALSE}]),
      Run("cdp", FrameCaptureConfig, [sc EXCEPT !.useScreencast = {TRUE}]),
      Run("cdp", ContextConfig, [sc EXCEPT !.useScreencast = {FALSE}]),
      Run("url", Config(RegularEndpoint, FALSE, TRUE, TRUE),
          [sc EXCEPT !.useScreencast = {FALSE}, !.time = MaxTime]),
      Run("url", ContextConfig, [sc EXCEPT !.useScreencast = {FALSE}]) }

\* One client that repeats its calls, with default arguments, on two tabs.
Repeated ==
    [Sequential EXCEPT !.calls = MaxCalls, !.tabs = Tabs, !.names = {"a.webm"},
                       !.time = 0, !.stopArgs = {DefaultArgs}, !.getArgs = {DefaultArgs},
                       !.responses = {GoodResponse}]

InitRepeat == InitOf(BackendRuns(Repeated) \cup {GlanceRun})

\* Two calls in flight at a time, with default arguments.
Overlapping ==
    [Sequential EXCEPT !.slots = Slots, !.tabs = Tabs, !.names = {"a.webm"},
                       !.time = 0, !.stopArgs = {DefaultArgs}, !.getArgs = {DefaultArgs},
                       !.responses = {GoodResponse}]

InitOverlap == InitOf(BackendRuns(Overlapping) \cup {GlanceRun})

\* Requests to the HTTP server for the video of one Browserless recording.
\* a recording of 1000 bytes, as the string Browserless.stopRecording returns
BigVideo == [i \in 1..1000 |-> IF i <= 4 THEN WebM[i] ELSE 0]
RangeNumbers == {0, 3, 7, 99, 999, 1000, 2000, 2100}
Ranges ==
    { RangeHeader(0, 0), RangeHeader(0, 99), RangeHeader(3, 7), RangeHeader(7, 3),
      RangeHeader(999, 999), RangeHeader(999, 1000), RangeHeader(1000, 1000),
      RangeHeader(2000, 2100), RangeHeader(0, 2000),
      RangeFrom(0), RangeFrom(1000), RangeSuffix(3), RangeWords, NoRange }
Urls ==
    { << "videos", "a.webm" >>, << "videos", "b" >>, << "videos", "" >>,
      << "videos", "a..b" >>, << "videos", "..", "a.webm" >>,
      << "videos", "%2E%2e", "b" >>, << "videos", "a.webm", ".." >>,
      << "videos", ".", "a.webm" >>, << "videos", "", "a.webm" >>,
      << "videos", "", "" >>, << "videos", "a.webm", "b" >>, << "mcp" >> }
\* One client asks for every name, another asks for one video by every range.
Serving ==
    [Sequential EXCEPT
        !.calls = 2, !.ops = {"start", "stop"}, !.useScreencast = {FALSE},
        !.names = {"a.webm"}, !.time = 0, !.stopArgs = {DefaultArgs}]
ServingNames ==
    [Serving EXCEPT
        !.responses = { GoodResponse, Response(Prop("string", <<>>), Undefined) },
        !.urls = Urls, !.ranges = { NoRange, RangeHeader(0, 0) }]
ServingRanges ==
    [Serving EXCEPT
        !.responses = { GoodResponse, Response(Prop("string", BigVideo), Undefined),
                        Response(Prop("string", OneByte), Undefined),
                        Response(Prop("string", <<>>), Undefined) },
        !.urls = { << "videos", "a.webm" >> }, !.ranges = Ranges]

\* A third client looks a recorded video up, also by a name that leaves its directory.
Lookup ==
    [Serving EXCEPT !.calls = 3, !.ops = {"start", "stop", "get"}, !.lookups = {"../b"},
                    !.getArgs = {DefaultArgs}, !.responses = {GoodResponse}]

InitServe ==
    InitOf(BackendRuns([Repeated EXCEPT !.calls = 3])
           \cup { Run("url", Config(RegularEndpoint, FALSE, TRUE, TRUE), sc) :
                      sc \in {ServingNames, ServingRanges, Lookup} })

\* A client stops host-managed recordings with every bound on the wait, in both
\* modes, while the file changes in every way.
LongWait == 6
Waiting ==
    [Sequential EXCEPT
        !.calls = 2, !.ops = {"start", "stop"}, !.useScreencast = {FALSE},
        !.names = {"a.webm"}, !.time = 0, !.responses = {GoodResponse},
        !.stopArgs = { Args(TRUE, FALSE, fb, mw) : fb \in BOOLEAN, mw \in {1, 2, LongWait} },
        !.volatile = TRUE]

InitWait ==
    InitOf(BackendRuns([Repeated EXCEPT !.calls = 3])
           \cup { GlanceRun, Run("url", ContextConfig, Waiting) })

\* ------------------------------------------------------------------- system
Next ==
    \/ Tick
    \/ \E t \in Tabs : SelectTab(t)
    \/ \E t \in Tabs : HostFlush(t)
    \/ \E h \in 1..Len(cdp) : ScreencastFrame(h)
    \/ \E s \in Slots : InvokeStart(s)
    \/ \E s \in Slots : StartAction(s)
    \/ \E s \in Slots : StartOpen(s)
    \/ \E s \in Slots : StartRecording(s)
    \/ \E s \in Slots : StartCleanup(s)
    \/ \E s \in Slots : ScreencastOpen(s)
    \/ \E s \in Slots : ScreencastStart(s)
    \/ \E s \in Slots : ScreencastStore(s)
    \/ \E s \in Slots : InvokeStop(s)
    \/ \E s \in Slots : StopAction(s)
    \/ \E s \in Slots : StopSend(s)
    \/ \E s \in Slots : StopDetach(s)
    \/ \E s \in Slots : StopCleanup(s)
    \/ \E s \in Slots : ScreencastStop(s)
    \/ \E s \in Slots : ScreencastWrite(s)
    \/ \E s \in Slots : ContextStop(s)
    \/ \E s \in Slots : FinalizationAttempt(s)
    \/ \E s \in Slots : WaitPoll(s)
    \/ \E s \in Slots : StopFinish(s)
    \/ \E s \in Slots : InvokeGet(s)
    \/ \E s \in Slots : GetAction(s)
    \/ \E s \in Slots : GetRespond(s)
    \/ \E s \in Slots : InvokeStatus(s)
    \/ \E s \in Slots : StatusAction(s)
    \/ HttpRequest

\* A client that asks for a video an earlier process of the server recorded:
\* test-results holds what that process left in videos-0 and videos-1, and the
\* map of this process is empty.
LeftFiles ==
    { File(Path("videos", ts, n), WebM) : ts \in 0..MaxTime, n \in {"a.webm", "page1.webm"} }
Fetching ==
    [Plain EXCEPT !.calls = 2, !.ops = {"get"}, !.names = {"a.webm"}, !.time = 0,
                  !.getArgs = {DefaultArgs}]
InitResolve ==
    \/ InitOf(BackendRuns([Repeated EXCEPT !.calls = 3]) \cup {GlanceRun})
    \/ InitOn({Run("url", ContextConfig, Fetching)}, SUBSET LeftFiles)
SpecResolve == InitResolve /\ [][Next]_vars

\* A client of the HTTP transport that records twice under one file name, looks
\* the video up and fetches it by the locators it was given.
Recalling ==
    [Repeated EXCEPT !.tabs = {1}, !.ops = {"start", "stop", "get"}, !.time = MaxTime,
                     !.urls = { << "videos", "a.webm" >> }, !.ranges = {NoRange}]
InitRecall ==
    InitOf(BackendRuns([Repeated EXCEPT !.calls = 3])
           \cup { GlanceRun, Run("url", Config(RegularEndpoint, FALSE, TRUE, TRUE), Recalling) })
SpecRecall == InitRecall /\ [][Next]_vars

Spec == Init /\ [][Next]_vars

\* the same system with a client that repeats its calls
SpecRepeat == InitRepeat /\ [][Next]_vars

\* the same system with two calls in flight
SpecOverlap == InitOverlap /\ [][Next]_vars

\* the same system with a client of the HTTP server
SpecServe == InitServe /\ [][Next]_vars

\* the system with files that change under a wait
NextWait == Next \/ FileChange
SpecWait == InitWait /\ [][NextWait]_vars

\* the same, when the timer of a wait always fires
SpecWaitFair == SpecWait /\ \A s \in Slots : WF_vars(WaitPoll(s))

\* ------------------------------------------------------------------- claims
\* the descriptor of a vendor endpoint: a marker in the host, the path or the query
VendorMarked(e) == e.present /\ e.valid /\ (e.host \/ e.path \/ e.token)

\* the results of the calls that returned, in the order they returned
Results == [i \in 1..Len(log.hist) |-> log.hist[i].res]
Operations == [i \in 1..Len(log.hist) |-> log.hist[i].op]

\* a stop of slot s has passed its first await and has not returned
Finalizing(s) ==
    call[s].op = "stop" /\ call[s].pc \in {"t_detach", "t_sc_write", "wait", "finish"}

\* C1: a start whose check finds a session stored, whether it is recording or a
\* stop of it is in flight, returns AlreadyActive at once and changes nothing: no
\* CDP session is opened, and the stored session, its name, start time, kind and
\* handle stay as they are.
C1_StartWhileActive ==
    [][ \A s \in Slots :
          (call[s].pc = "start" /\ call'[s].pc # "start" /\ videoRecording # NULL)
          => /\ call'[s].pc = "idle"
             /\ log'.last.op = "start"
             /\ log'.last.res = "AlreadyActive"
             /\ cdp' = cdp
             /\ recs' = recs
             /\ videoRecording' = videoRecording
             /\ files' = files /\ dirs' = dirs /\ storedVideos' = storedVideos ]_vars

\* a start was refused while a stop of the stored session was in flight
C1_Witness ==
    /\ log.last.op = "start"
    /\ log.last.res = "AlreadyActive"
    /\ \E s \in Slots : Finalizing(s) /\ call[s].info = videoRecording

\* C2: when a stop has returned "stopped" no session is stored any more, and in
\* the sequence start, start, stop, start whose first start and stop succeed the
\* second start is refused with AlreadyActive and the last start is accepted: it
\* starts a recording unless the backend itself fails.
C2_RestartAfterStop ==
    /\ (log.last.op = "stop" /\ log.last.res = "Stopped") => videoRecording = NULL
    /\ ( /\ Operations = << "start", "start", "stop", "start" >>
         /\ Results[1] = "Started"
         /\ Results[3] = "Stopped" )
       => /\ Results[2] = "AlreadyActive"
          /\ Results[4] = "Started" \/ (Results[4] = "StartFailed" /\ log.last.fault)

C2_Witness ==
    /\ Operations = << "start", "start", "stop", "start" >>
    /\ Results = << "Started", "AlreadyActive", "Stopped", "Started" >>

\* C3: once a stop of a session has returned, that session is not stored any
\* more, whether the stop succeeded or failed.
C3_StopLeavesActive ==
    \A i \in 1..Len(log.hist) :
        (log.hist[i].op = "stop" /\ log.hist[i].info # NULL)
        => videoRecording # log.hist[i].info

\* what C4 says of the stop of slot s
ReturnsNotActive(s) ==
    /\ call'[s].pc = "idle"
    /\ log'.last.op = "stop"
    /\ log'.last.res = "NotActive"
    /\ cdp' = cdp
    /\ files' = files /\ dirs' = dirs
    /\ storedVideos' = storedVideos
    /\ recs' = recs /\ videoRecording' = videoRecording

\* C4 as stated: a stop issued when no session was ever started, or after a stop
\* of the session has returned, completed or failed, returns NotActive at once:
\* it sends nothing to the browser, writes no file and stores no video.
C4_AsStated ==
    [][ \A s \in Slots :
          (/\ call[s].pc = "stop" /\ call'[s].pc # "stop"
           /\ \/ call[s].info = NULL
              \/ \E i \in 1..Len(log.hist) :
                     log.hist[i].op = "stop" /\ log.hist[i].info = call[s].info)
          => ReturnsNotActive(s) ]_vars

\* C4, the part that holds: a stop whose handler found no session stored (none
\* was started, or the stop of the last one completed) returns NotActive at once.
C4_StopWhenNotActive ==
    [][ \A s \in Slots :
          (call[s].pc = "stop" /\ call'[s].pc # "stop" /\ call[s].info = NULL)
          => ReturnsNotActive(s) ]_vars

\* a stop was refused after an earlier session had been stopped
C4_Witness ==
    /\ log.last.op = "stop"
    /\ log.last.res = "NotActive"
    /\ \E i \in 1..Len(log.hist) : log.hist[i].res = "Stopped"

\* C5: over a vendor endpoint without record=true (revision cdp) every start
\* returns NotEnabled with a text that holds 'record=true' and the example URL;
\* no CDP session is ever opened and no session is ever stored.
C5_NotEnabledGuidance ==
    (rev = "cdp" /\ VendorMarked(config.cdpEndpoint) /\ config.cdpEndpoint.record # "true")
    => /\ cdp = << >>
       /\ recs = << >>
       /\ videoRecording = NULL
       /\ log.last.op = "start"
          => /\ log.last.res = "NotEnabled"
             /\ { "record=true",
                  "wss://production-sfo.browserless.io?token=YOUR_TOKEN&record=true" }
                   \subseteq MsgText(log.last.msg)

\* a start was refused over an endpoint marked only by its token, with record=1
C5_Witness ==
    /\ log.last.op = "start"
    /\ log.last.res = "NotEnabled"
    /\ ~config.cdpEndpoint.host /\ ~config.cdpEndpoint.path
    /\ config.cdpEndpoint.record = "1"

\* the case of C6: nothing is stored, the endpoint (if any) carries no vendor
\* marker, the start of slot s asks for no screencast and the host records nothing
NothingConfigured(s) ==
    /\ videoRecording = NULL
    /\ ~config.recordVideo
    /\ ~call[s].useScreencast
    /\ IF config.cdpEndpoint.present
       THEN rev = "cdp" /\ ~VendorMarked(config.cdpEndpoint)
       ELSE TRUE

\* what C6 says of the start of slot s
ReturnsNotConfigured(s) ==
    /\ call'[s].pc = "idle"
    /\ log'.last.op = "start"
    /\ log'.last.res = "NotConfigured"
    /\ "--video-mode" \in MsgText(log'.last.msg)
    /\ cdp' = cdp
    /\ recs' = recs
    /\ videoRecording' = NULL

\* C6 as stated: with nothing configured a start returns NotConfigured with a
\* text that names '--video-mode', opens no CDP session and stores no session.
C6_AsStated ==
    [][ \A s \in Slots :
          (call[s].pc = "start" /\ call'[s].pc # "start" /\ NothingConfigured(s))
          => ReturnsNotConfigured(s) ]_vars

\* C6: the same, when the context of the page has a browser object.
C6_NotConfigured ==
    [][ \A s \in Slots :
          (call[s].pc = "start" /\ call'[s].pc # "start" /\ NothingConfigured(s)
             /\ config.browser)
          => ReturnsNotConfigured(s) ]_vars

\* a start over a regular endpoint was answered with the '--video-mode' text
C6_Witness ==
    /\ log.last.op = "start"
    /\ log.last.res = "NotConfigured"
    /\ config.cdpEndpoint.present
    /\ videoRecording = NULL

\* C7: once a stop of a session that holds a CDP session has returned, detach
\* has been called on that CDP session exactly once.
C7_DetachExactlyOnce ==
    \A i \in 1..Len(log.hist) :
        (/\ log.hist[i].op = "stop"
         /\ log.hist[i].info # NULL
         /\ recs[log.hist[i].info].h # NULL)
        => cdp[recs[log.hist[i].info].h].detachCalls = 1

\* C8: a start on a tab other than the tab of the stored session is not refused
\* with AlreadyActive.
C8_SessionsPerTab ==
    [][ \A s \in Slots :
          (/\ call[s].pc = "start" /\ call'[s].pc # "start"
           /\ videoRecording # NULL
           /\ recs[videoRecording].tab # call[s].tab)
          => ~(call'[s].pc = "idle" /\ log'.last.res = "AlreadyActive") ]_vars

\* C9: (revision url) the response of a stop or a get holds inline data only when
\* returnBase64 was set in the call, so forceBase64 alone adds none; and with the
\* default arguments the response of a stop that saved a file or of a get that
\* found one holds a URL and no data.
C9_InlineOnlyOnRequest ==
    [][ \A s \in Slots :
          (/\ rev = "url"
           /\ call[s].op \in {"stop", "get"}
           /\ call[s].pc # "idle" /\ call'[s].pc = "idle")
          => /\ log'.last.hasData => call[s].returnBase64
             /\ ( /\ call[s].returnVideo /\ ~call[s].returnBase64
                  /\ ~call[s].forceBase64
                  /\ \/ log'.last.res = "Found"
                     \/ log'.last.res = "Stopped" /\ log'.last.msg = "Saved" )
                => (~log'.last.hasData /\ log'.last.uri \in {"http", "file"}) ]_vars

\* a response of revision url came with inline data
C9_Witness ==
    /\ rev = "url"
    /\ log.last.op \in {"stop", "get"}
    /\ log.last.hasData
    /\ Len(log.last.data) > 0

\* the case of C10: (revision url, over an endpoint) the get of slot s, asked for
\* base64 content, answers for a non-empty file of the name it was asked for
FetchesArtifact(s) ==
    /\ rev = "url"
    /\ SelectBackendUrl(config) = "Proprietary"
    /\ call[s].pc = "get_resp" /\ call'[s].pc = "idle"
    /\ call[s].returnVideo /\ call[s].returnBase64
    /\ call[s].path.name = call[s].name
    /\ Exists(call[s].path)
    /\ Len(FileAt(files, call[s].path).bytes) > 0

\* the response holds data that decodes to the bytes of the file
DecodesTo(s) ==
    /\ log'.last.hasData
    /\ fromBase64(log'.last.data) = FileAt(files, call[s].path).bytes

\* C10 as stated: the base64 content of a get decodes to the bytes B that the
\* Browserless stop wrote, for every non-empty B.
C10_AsStated ==
    [][ \A s \in Slots : FetchesArtifact(s) => DecodesTo(s) ]_vars

\* C10: the same, when forceBase64 is set, or B begins with the EBML signature
\* and the client takes video content.
C10_RoundTrip ==
    [][ \A s \in Slots :
          (/\ FetchesArtifact(s)
           /\ \/ call[s].forceBase64
              \/ /\ isValidWebMFile(FileAt(files, call[s].path).bytes)
                 /\ log'.last.supportsVideos)
          => DecodesTo(s) ]_vars

\* a get of revision url returned the four bytes of a WebM artifact, unforced
C10_Witness ==
    /\ rev = "url"
    /\ SelectBackendUrl(config) = "Proprietary"
    /\ log.last.op = "get"
    /\ log.last.supportsVideos
    /\ log.last.hasData
    /\ fromBase64(log.last.data) = WebM

\* a step in which the HTTP server answers a request
Answers == http' # http

\* the file of a name in the newest videos directory that holds one
Newest(f) ==
    /\ f.path.kind = "videos"
    /\ \A g \in files :
          (g.path.kind = "videos" /\ g.path.name = f.path.name) => g.path.ts <= f.path.ts

\* C11: for a video file of S bytes the HTTP server answers a request without a
\* Range header with 200 and Content-Length S; 'bytes=a-b' with a <= b < S with
\* 206, Content-Length b-a+1 and Content-Range 'bytes a-b/S'; and 'bytes=a-b'
\* with a >= S or b >= S with 416.
C11_RangeAnswers ==
    [][ \A f \in files :
          (Answers /\ Newest(f) /\ http'.url = << "videos", f.path.name >>)
          => LET S == Len(f.bytes)
                 ans == http'.answer
             IN
             /\ http'.range = NoRange => (ans.status = 200 /\ ans.contentLength = S)
             /\ \A a \in RangeNumbers, b \in RangeNumbers :
                   http'.range = RangeHeader(a, b)
                   => /\ (a <= b /\ b < S)
                         => /\ ans.status = 206
                            /\ ans.contentLength = b - a + 1
                            /\ ans.contentRange = ContentRange(a, b, S)
                      /\ (a >= S \/ b >= S) => ans.status = 416 ]_vars

\* 'bytes=0-99' of a file of 1000 bytes was answered 206, 100, 'bytes 0-99/1000'
C11_Witness ==
    /\ http.url = << "videos", "a.webm" >>
    /\ http.range = RangeHeader(0, 99)
    /\ http.answer.status = 206
    /\ http.answer.contentLength = 100
    /\ http.answer.contentRange = ContentRange(0, 99, 1000)
    /\ \E f \in files : f.path = http.answer.served /\ Len(f.bytes) = 1000

\* the name a request under /videos/ was sent with, as it stands in req.url
RawName(url) == Spell(Tail(url))
UnderVideos(url) == Len(url) >= 2 /\ url[1] = "videos"

\* no answer of the HTTP server is streamed from outside a videos-* directory
ServesOnlyVideos ==
    http.answer.served = NoPath \/ http.answer.served.kind = "videos"

\* C12 as stated: a request under /videos/ whose name, as sent, is empty or holds
\* '..' is answered 400 without a look at the filesystem, and nothing is served
\* from outside the videos-* directories.
C12_AsStated ==
    [][ /\ ServesOnlyVideos'
        /\ (/\ Answers /\ UnderVideos(http'.url)
            /\ \/ Len(RawName(http'.url)) = 0
               \/ Includes(RawName(http'.url), << 46, 46 >>))
           => (http'.answer.status = 400 /\ ~http'.answer.touched) ]_vars

\* C12: the same for the name the server reads from the path of the parsed URL,
\* in which the dot segments of the request are already resolved.
C12_InvalidName ==
    [][ /\ ServesOnlyVideos'
        /\ (/\ Answers /\ UnderVideos(URLPath(http'.url, << >>))
            /\ \/ Len(RawName(URLPath(http'.url, << >>))) = 0
               \/ Includes(RawName(URLPath(http'.url, << >>)), << 46, 46 >>))
           => (http'.answer.status = 400 /\ ~http'.answer.touched) ]_vars

\* a request for 'a..b' was refused while a video was there to be served
C12_Witness ==
    /\ http.url = << "videos", "a..b" >>
    /\ http.answer.status = 400
    /\ ~http.answer.touched
    /\ \E f \in files : f.path.kind = "videos"

\* a file name that holds '..'
HoldsDotDot(name) == Includes(Spell(NameSegments(name)), << 46, 46 >>)

\* C13: a get for a file name that holds '..' joins that name into no path that
\* is tested for existence.
C13_TraversalNameNotProbed ==
    (log.last.op = "get" /\ HoldsDotDot(log.last.name)) => log.last.probed = {}

\* C14: once a file name is stored with a path, no step changes the path stored
\* for that name.
C14_StoredPathNeverChanges ==
    [][ \A n \in Names :
          storedVideos[n] # NoPath => storedVideos'[n] = storedVideos[n] ]_vars

\* the stop in slot s of a host-managed recording ends, with the file it found stored
\* under the name of its session
Publishes(s) ==
    /\ call[s].pc = "finish" /\ call'[s].pc = "idle"
    /\ recs[call[s].info].kind = "context"
    /\ call[s].path # NoPath
    /\ storedVideos'[recs[call[s].info].name] = call[s].path

\* waitForVideoFileComplete of the call in slot s saw the size unchanged as often
\* as it requires
ConfirmedStable(s) ==
    call[s].stableCount >= RequiredStableCount(call[s].forceBase64)

\* C15: a stop of a host-managed recording stores the file only when the wait for
\* the file has confirmed its size stable, or the caller forced the read; a stop
\* whose wait ran out while the size was still changing stores nothing.
C15_PublishedOnlyWhenStable ==
    [][ \A s \in Slots :
          (rev = "url" /\ Publishes(s)) => (ConfirmedStable(s) \/ call[s].forceBase64) ]_vars

\* the stop in slot s of a screencast session has sent Page.stopScreencast and
\* finds no frame buffered
ZeroFrameStop(s) ==
    /\ call[s].pc = "t_sc_send" /\ call'[s].pc # "t_sc_send"
    /\ Len(recs[call[s].info].frames) = 0

\* a stop that failed for want of frames returns
NoFramesReturn(s) ==
    call[s].pc = "t_fail" /\ call[s].next = "NoFrames" /\ call'[s].pc = "idle"

\* no step writes a manifest that counts zero frames
NoEmptyManifest == \A f \in files : f.manifest.frameCount # 0

\* C16 as stated: a screencast stop that finds no frame buffered always fails with
\* NoFrames.
C16_AsStated ==
    [][ \A s \in Slots :
          ZeroFrameStop(s) => (call'[s].pc = "t_fail" /\ call'[s].next = "NoFrames") ]_vars

\* C16: a screencast stop that finds no frame buffered fails, with NoFrames when
\* Page.stopScreencast succeeded; it makes no directory, writes no file, stores
\* no path, and its answer is the failure; no manifest ever counts zero frames.
C16_NoFrames ==
    [][ /\ NoEmptyManifest'
        /\ \A s \in Slots :
            /\ ZeroFrameStop(s)
               => /\ call'[s].pc = "t_fail"
                  /\ ~call'[s].fault => call'[s].next = "NoFrames"
                  /\ dirs' = dirs /\ files' = files /\ storedVideos' = storedVideos
            /\ NoFramesReturn(s)
               => /\ log'.last.res = "StopFailed" /\ log'.last.msg = "NoFrames"
                  /\ dirs' = dirs /\ files' = files /\ storedVideos' = storedVideos ]_vars

\* a screencast stop without frames has answered NoFrames and nothing was written
C16_Witness ==
    /\ log.last.op = "stop" /\ log.last.res = "StopFailed" /\ log.last.msg = "NoFrames"
    /\ recs[log.last.info].kind = "screencast"
    /\ Len(recs[log.last.info].frames) = 0
    /\ dirs = {} /\ files = {}
    /\ \A n \in Names : storedVideos[n] = NoPath

\* C17: every 'Page.screencastFrame' event a CDP session emits after
\* Page.startScreencast is answered with a 'Page.screencastFrameAck', whether or
\* not the frame is buffered.
C17_EveryFrameAcknowledged ==
    [][ \A h \in 1..Len(cdp) :
          cdp'[h].emitted > cdp[h].emitted => cdp'[h].acked > cdp[h].acked ]_vars

\* C18: every start, stop and get call returns a response; none ends with an
\* error thrown out of its action.
C18_NoRawException ==
    \A i \in 1..Len(log.hist) :
        log.hist[i].op \in {"start", "stop", "get"} => log.hist[i].res # "Exception"

\* a start reaches its action on a local browser with recordVideo and a browser
\* object, no recording being active
HostManagedStart(s) ==
    /\ call[s].pc = "start" /\ call'[s].pc # "start"
    /\ videoRecording = NULL
    /\ config.browser /\ config.recordVideo /\ ~config.cdpEndpoint.present

\* what the calls in flight have done to pages: nothing but navigating the recorded
\* page, opening a page in its context and closing the recorded page
PageEffectsOnly == \A s \in Slots : call[s].acts \subseteq {"goto", "newPage", "closePage"}

\* C19: a start of a host-managed recording returns at once having opened no CDP
\* session, touched no page and written nothing; it stores a session of kind
\* context without a handle. CDP sessions are opened by starts of the vendor and
\* screencast recorders only, and no call creates a browser context.
C19_ContextStartCreatesNothing ==
    [][ /\ PageEffectsOnly'
        /\ Len(cdp') > Len(cdp)
           => \E s \in Slots : call[s].op = "start" /\ call[s].pc \in {"open", "sc_open"}
        /\ \A s \in Slots :
             HostManagedStart(s)
             => /\ call'[s].pc = "idle"
                /\ log'.last.op = "start" /\ log'.last.res = "Started"
                /\ call[s].acts = {}
                /\ cdp' = cdp /\ files' = files /\ dirs' = dirs
                /\ storedVideos' = storedVideos
                /\ Len(recs') = Len(recs) + 1
                /\ videoRecording' = Len(recs')
                /\ recs'[Len(recs')].kind = "context"
                /\ recs'[Len(recs')].h = NULL ]_vars

\* a host-managed recording has been started and no CDP session exists
C19_Witness ==
    /\ log.last.op = "start" /\ log.last.res = "Started"
    /\ log.last.msg = "StartedContext"
    /\ videoRecording # NULL
    /\ recs[videoRecording].kind = "context"
    /\ cdp = << >>

\* the sessions that were started and of which no stop has returned
LiveSessions ==
    { r \in 1..Len(recs) :
        ~ \E i \in 1..Len(log.hist) : log.hist[i].op = "stop" /\ log.hist[i].info = r }

\* C20: a status call changes neither the session nor the store; it reports a
\* recording active, with the file name given at start, exactly when a session
\* was started and no stop of it has returned yet, and none active otherwise.
C20_StatusReportsSession ==
    [][ \A s \in Slots :
          (call[s].pc = "status" /\ call'[s].pc = "idle")
          => /\ videoRecording' = videoRecording /\ recs' = recs
             /\ storedVideos' = storedVideos
             /\ cdp' = cdp /\ files' = files /\ dirs' = dirs
             /\ log'.last.op = "status"
             /\ log'.last.res = "Active" <=> LiveSessions # {}
             /\ log'.last.res = "Inactive" <=> LiveSessions = {}
             /\ log'.last.res = "Active"
                => \E r \in LiveSessions : log'.last.name = recs[r].name ]_vars

\* the wait of the call in slot s makes one pass of its loop: it polls the file
Polls(s) ==
    /\ call[s].pc = "wait"
    /\ call'[s] # call[s]
    /\ call[s].elapsed < MaxWaitUnits(call[s].maxWait)

\* the wait of the call in slot s ends at a poll, before its time has run out
EndsAtPoll(s) == Polls(s) /\ call'[s].pc # "wait"

\* the number of unchanged samples in a row the claims require of each mode
Threshold(s) == IF call[s].forceBase64 THEN 5 ELSE 3

\* C21: while the samples of a wait are sizes that never went down (the file grows,
\* then holds), the wait ends at a poll exactly when that poll is the third (normal
\* mode) or fifth (forced mode) sample in a row that equals its predecessor and is
\* not zero: not at an earlier poll, and not at a later one.
C21_SuccessAtThreshold ==
    [][ \A s \in Slots :
          (Polls(s) /\ call'[s].regular)
          => /\ EndsAtPoll(s) <=> call'[s].run >= Threshold(s)
             /\ call'[s].run <= Threshold(s) ]_vars

\* a forced wait has ended at the fifth unchanged sample of a file that had grown
C21_Witness ==
    \E s \in Slots :
        /\ call[s].pc = "finish" /\ call[s].forceBase64
        /\ call[s].regular /\ call[s].run = 5
        /\ call[s].seen = Len(HostVideo)
        /\ call[s].elapsed < MaxWaitUnits(call[s].maxWait)

\* the time a wait has taken stays below the caller's bound (in units of 500 ms)
\* plus one poll interval of its mode
WithinBound(s) ==
    call[s].elapsed < 2 * call[s].maxWait + (IF call[s].forceBase64 THEN 2 ELSE 1)

\* C22: a wait always ends, whatever the file does (it is missing, stays empty or
\* changes at every poll), and no later than one poll interval after
\* maxWaitSeconds has elapsed.
C22_WaitTerminates ==
    /\ [](\A s \in Slots : call[s].op \in {"stop", "get"} => WithinBound(s))
    /\ \A s \in Slots : (call[s].pc = "wait") ~> (call[s].pc # "wait")

\* a wait on a file that was removed has ended when its time had run out
C22_Witness ==
    \E s \in Slots :
        /\ call[s].pc = "finish" /\ call[s].maxWait = LongWait
        /\ call[s].elapsed >= 2 * call[s].maxWait
        /\ call[s].seen = Unreadable
        /\ call[s].stableCount < 3

\* the stop in slot s has found a session stored and is working on it
StopAccepted(s) ==
    call[s].op = "stop" /\ call[s].info # NULL /\ call[s].pc \notin {"idle", "stop"}

\* C23: no two stops work on the same session at the same time: a stop that
\* arrives while an earlier stop of the session is still in flight is refused.
C23_OneStopPerSession ==
    \A s \in Slots, u \in Slots :
        (s # u /\ StopAccepted(s) /\ StopAccepted(u)) => call[s].info # call[u].info

\* C24: in every state at most one session of a tab is live (started, and no stop
\* of it has returned), also when two starts on the tab overlap.
C24_OneLiveSessionPerTab ==
    \A t \in Tabs : Cardinality({ r \in LiveSessions : recs[r].tab = t }) <= 1

\* the Browserless start in slot s is at its start-record command
AtStartRecord(s) ==
    rev = "cdp" /\ call[s].op = "start" /\ call[s].pc = "rec"

\* the Browserless start in slot s is in its catch block and returns
StartFails(s) ==
    /\ rev = "cdp" /\ call[s].op = "start" /\ call[s].pc = "start_fail"
    /\ ~call[s].useScreencast
    /\ call'[s].pc = "idle"

\* C25: a Browserless start whose start-record command fails or runs into the
\* 10 s timer stores no session and goes to its catch block, which calls detach
\* on the CDP session the start opened, once, and returns a failure without
\* storing a session; a start that follows a failed start is not refused as
\* already active.
C25_FailedStartCleansUp ==
    [][ \A s \in Slots :
          /\ (AtStartRecord(s) /\ call'[s].pc # "rec" /\ ~cdp'[call[s].h].recording)
             => /\ call'[s].pc = "start_fail"
                /\ videoRecording' = videoRecording /\ recs' = recs
          /\ StartFails(s)
             => /\ log'.last.op = "start" /\ log'.last.res = "StartFailed"
                /\ cdp[call[s].h].detachCalls = 0
                /\ cdp'[call[s].h].detachCalls = 1
                /\ videoRecording' = videoRecording /\ recs' = recs
                /\ videoRecording = NULL
          /\ (/\ rev = "cdp" /\ call[s].pc = "start" /\ call'[s].pc # "start"
              /\ Len(log.hist) > 0
              /\ log.hist[Len(log.hist)].op = "start"
              /\ log.hist[Len(log.hist)].res = "StartFailed")
             => ~(call'[s].pc = "idle" /\ log'.last.res = "AlreadyActive") ]_vars

\* a Browserless start failed, its CDP session was detached, and the next start
\* began to record
C25_Witness ==
    /\ rev = "cdp"
    /\ Len(log.hist) = 2
    /\ log.hist[1].op = "start" /\ log.hist[1].res = "StartFailed"
    /\ log.hist[2].op = "start" /\ log.hist[2].res = "Started"
    /\ Len(cdp) = 2
    /\ cdp[1].detachCalls = 1 /\ cdp[1].detached
    /\ cdp[2].recording
    /\ videoRecording # NULL

\* a start of revision cdp chooses its backend: no recording is active and the
\* browser object is there
Decides(s) ==
    /\ rev = "cdp"
    /\ call[s].pc = "start" /\ call'[s].pc # "start"
    /\ videoRecording = NULL
    /\ config.browser

\* C26: over a vendor-marked endpoint a start goes to the Browserless recorder
\* when the endpoint has record=true and returns NotEnabled when it has not,
\* whether or not a screencast is asked for and whether or not --video-mode is
\* set; over any other endpoint a start that asks for a screencast goes to the
\* screencast recorder, also with --video-mode set; a host-managed recording is
\* started only when neither is the case.
C26_RuleOrder ==
    [][ \A s \in Slots :
          Decides(s)
          => LET e == config.cdpEndpoint IN
             /\ (VendorMarked(e) /\ e.record = "true") => call'[s].pc = "open"
             /\ (VendorMarked(e) /\ e.record # "true")
                => (call'[s].pc = "idle" /\ log'.last.res = "NotEnabled")
             /\ (e.present /\ ~VendorMarked(e) /\ call[s].useScreencast)
                => call'[s].pc = "sc_open"
             /\ (call'[s].pc = "idle" /\ log'.last.res = "Started")
                => /\ ~VendorMarked(e)
                   /\ ~(e.present /\ call[s].useScreencast)
                   /\ recs'[videoRecording'].kind = "context" ]_vars

\* a start asking for a screencast has gone to the screencast recorder although
\* --video-mode is set
C26_Witness ==
    /\ rev = "cdp"
    /\ config.recordVideo /\ config.cdpEndpoint.present
    /\ ~VendorMarked(config.cdpEndpoint)
    /\ \E s \in Slots : call[s].op = "start" /\ call[s].useScreencast
                        /\ call[s].pc = "sc_open"

\* C27: the count the monitor keeps is the number of samples in a row that
\* equal the sample before them and are not zero: a sample of zero bytes, a poll
\* that cannot read the file and a sample of another size all bring it to zero.
C27_CountIsUninterruptedRun ==
    \A s \in Slots : call[s].stableCount = call[s].run

\* the directories of the search that hold a file of the very name
ExactIn(name) == { ts \in 0..MaxTime : Exists(Path("videos", ts, name)) }

\* a get of revision url has looked the name up and found neither a map entry
\* nor a file of that name in the output directory
MissResolved(s) ==
    /\ rev = "url"
    /\ call[s].op = "get" /\ call[s].pc \in {"wait", "get_resp"}
    /\ storedVideos[call[s].name] = NoPath
    /\ ~Exists(OutputFile(call[s].name))

\* C28: on a map miss, when a videos-* directory holds a file of the very name
\* asked for, the lookup arrives at that file, in the newest directory that
\* has one; a file of another name is taken only when no directory has it.
C28_ExactMatchFirst ==
    \A s \in Slots :
        (MissResolved(s) /\ ExactIn(call[s].name) # {})
        => \E ts \in ExactIn(call[s].name) :
              /\ call[s].path = Path("videos", ts, call[s].name)
              /\ \A u \in ExactIn(call[s].name) : u <= ts

\* a stop of a host-managed recording of revision url returns without the host
\* ever having given a path
NoPathStop(s) ==
    /\ rev = "url"
    /\ call[s].pc = "finish" /\ call'[s].pc = "idle"
    /\ recs[call[s].info].kind = "context"
    /\ call[s].path = NoPath

\* C29: a stop of a host-managed recording for which the host never gives a path
\* returns a Timeout failure, has waited no longer than maxWaitSeconds (two polls
\* of 500 ms to the second), stores no path and writes no file, and leaves no
\* recording active.
C29_NoPathStopTimesOut ==
    [][ \A s \in Slots :
          NoPathStop(s)
          => /\ log'.last.res = "Timeout"
             /\ FinalizationSleep(call[s].i) + call[s].elapsed <= 2 * call[s].maxWait
             /\ storedVideos' = storedVideos
             /\ files' = files
             /\ videoRecording' = NULL ]_vars

\* C30: a Browserless stop takes no payload of length zero: none is carried on
\* to the write, no file of zero bytes is written under the name of a session,
\* and no name is stored for such a file.
C30_EmptyPayloadRejected ==
    config.cdpEndpoint.present
    => /\ \A s \in Slots :
            (/\ call[s].op = "stop" /\ call[s].pc \in {"t_detach", "finish"}
             /\ recs[call[s].info].kind = "browserless")
            => Len(call[s].buf) > 0
       /\ \A f \in files : f.path.kind = "videos" => Len(f.bytes) > 0
       /\ \A n \in Names, f \in files :
            f.path = storedVideos[n] => Len(f.bytes) > 0

\* a string that is base64 text: digits of the alphabet and padding
IsBase64Text(s) == \A i \in 1..Len(s) : B64Val(s[i]) >= 0 \/ s[i] = 61

\* The decodings in their order, each applied to the shape it is for: a string in
\* value as base64 when it is base64 text and as a binary string otherwise, a
\* Buffer in value as it is, a string in data as base64; no other shape is taken.
PriorityDecode(response) ==
    IF Truthy(response.value) THEN
        IF response.value.type = "string" THEN
            IF IsBase64Text(response.value.chars)
            THEN {Decoded(fromBase64(response.value.chars))}
            ELSE {Decoded(fromBinary(response.value.chars))}
        ELSE IF response.value.type = "buffer" THEN {Decoded(response.value.chars)}
        ELSE {Rejected("UnsupportedPayload")}
    ELSE IF Truthy(response.data) THEN {Decoded(fromBase64(response.data.chars))}
    ELSE {Rejected("UnsupportedPayload"), Rejected("NoData")}

\* Browserless.stopRecording has answered a stop of revision cdp and the answer
\* was normalised: the stop goes on to detach or to its catch block
Normalized(s) ==
    /\ rev = "cdp"
    /\ call[s].pc = "t_send" /\ call'[s].pc \in {"t_detach", "t_fail"}
    /\ ~call'[s].fault

\* C31: what a Browserless stop writes, or the error it fails with, is what the
\* decodings in their priority order give for an answer the browser may send: a
\* string that is not base64 text falls through to the binary decoding, and an
\* answer of no supported shape fails and writes no file.
C31_DecodingsInOrder ==
    [][ \A s \in Slots :
          Normalized(s)
          => \E response \in scope.responses : \E n \in PriorityDecode(response) :
                IF n.ok /\ Len(n.buf) > 0
                THEN /\ call'[s].pc = "t_detach"
                     /\ call'[s].buf = n.buf
                     /\ files' = WriteFile(files, File(call'[s].path, n.buf))
                ELSE /\ call'[s].pc = "t_fail"
                     /\ call'[s].next = (IF n.ok THEN "EmptyArtifact" ELSE n.error)
                     /\ files' = files ]_vars

\* C32: an answer 206 of the HTTP server carries Content-Range 'bytes s-e/S' with
\* 0 <= s <= e < S and Content-Length e-s+1 >= 1, S being the size of the file
\* it is streamed from; and a Range header 'bytes=a-b' with a > b, 'bytes=-n'
\* or 'bytes=x-y' is never answered 206.
C32_PartialAnswersAreValid ==
    [][ Answers
        => LET ans == http'.answer
               cr == ans.contentRange
           IN
           /\ ans.status = 206
              => /\ cr.form = "range"
                 /\ 0 <= cr.start /\ cr.start <= cr.end /\ cr.end < cr.size
                 /\ ans.contentLength = cr.end - cr.start + 1
                 /\ ans.contentLength >= 1
                 /\ \A f \in files : f.path = ans.served => cr.size = Len(f.bytes)
           /\ (\/ \E a \in RangeNumbers, b \in RangeNumbers :
                    a > b /\ http'.range = RangeHeader(a, b)
               \/ \E n \in RangeNumbers : http'.range = RangeSuffix(n)
               \/ http'.range = RangeWords)
              => ans.status # 206 ]_vars

\* 'bytes=3-7' of a file of 1000 bytes was answered 206 with 'bytes 3-7/1000'
C32_Witness ==
    /\ http.range = RangeHeader(3, 7)
    /\ http.answer.status = 206
    /\ http.answer.contentLength = 5
    /\ http.answer.contentRange = ContentRange(3, 7, 1000)
    /\ \E f \in files : f.path = http.answer.served /\ Len(f.bytes) = 1000

\* the video files a request path names: the files its name, joined to a
\* videos-* directory, is the path of
Artifacts(url) ==
    { f \in files : /\ f.path.kind = "videos" /\ f.path.name # ""
                    /\ SearchPath(f.path.ts, Tail(URLPath(url, << >>))) = f.path }

\* C33: the HTTP server validates the name before it looks at the filesystem
\* (400), looks the file up before it reads the Range header (404, and 416 only
\* for a file that was found), answers a request that names no video file 404
\* (or 400) whatever its Range header, and serves the file of the newest
\* directory that holds the name.
C33_ChecksInOrder ==
    [][ (Answers /\ IsVideoRequest(URLPath(http'.url, << >>)))
        => LET ans == http'.answer
               found == Artifacts(http'.url)
           IN
           /\ ans.status = 400 => ~ans.touched
           /\ found = {} => ans.status \in {400, 404}
           /\ ans.status = 416 => found # {}
           /\ ans.status \in {200, 206}
              => \E f \in found : f.path = ans.served /\ Newest(f) ]_vars

\* a stop returns from the end of its action, Stopped, with the path p of a file
\* or directory that is there
StopCompletes(s, p) ==
    /\ call[s].op = "stop" /\ call[s].pc = "finish" /\ call'[s].pc = "idle"
    /\ log'.last.op = "stop" /\ log'.last.res = "Stopped"
    /\ call[s].path = p /\ p # NoPath
    /\ \/ \E f \in files : f.path = p
       \/ p.name = "" /\ DirOf(p) \in dirs

\* C34: the map of stored videos changes only in the step in which a stop
\* completes with a path whose file is there, and then only by the entry of the
\* requested file name; starts, status calls, gets, stops that fail or find no
\* file and HTTP requests leave it as it is.
C34_StoreChangedOnlyByStop ==
    [][ storedVideos' # storedVideos
        => \E s \in Slots :
              /\ StopCompletes(s, call[s].path)
              /\ storedVideos' =
                    [storedVideos EXCEPT ![recs[call[s].info].name] = call[s].path] ]_vars

\* a stop has stored a video and the HTTP server has since served its file
C34_Witness ==
    /\ \E n \in Names : storedVideos[n] # NoPath /\ http.answer.served = storedVideos[n]
    /\ http.answer.status = 200
    /\ \E i \in 1..Len(log.hist) : log.hist[i].op = "stop" /\ log.hist[i].res = "Stopped"

\* C35: a GET on an HTTP locator that a stop or a get returned is answered, as
\* long as the file is there, with that file: not with 404 and not with another
\* file of the same name.
C35_LocatorResolves ==
    [][ \A i \in 1..Len(log.hist) :
          LET p == log.hist[i].locator IN
          (/\ Answers
           /\ p # NoPath /\ (\E f \in files : f.path = p)
           /\ http'.url = << "videos", p.name >>)
          => /\ http'.answer.status # 404
             /\ http'.answer.served \in {NoPath, p} ]_vars

\* the frame files of the directory screencast-<ts>
FrameFiles(ts) == { f \in files : f.path.kind = "screencast" /\ f.path.ts = ts
                                  /\ f.path.name = "frame" }
Manifests == { f \in files : f.path.kind = "screencast" /\ f.path.name = "frames.json" }

\* C36: the manifest frames.json agrees with the frame files beside it:
\* frameCount is the number of frame files and the length of the list; entry k
\* has index k-1 and the file name of that index, which is the name of a file
\* that was written; and the frames are in the order in which they arrived.
C36_ManifestAgrees ==
    \A m \in Manifests :
        LET mf == m.manifest
            n == mf.frameCount
        IN
        /\ n = Len(mf.frames)
        /\ n = Cardinality(FrameFiles(m.path.ts))
        /\ \A k \in 1..Len(mf.frames) :
              /\ mf.frames[k].index = k - 1
              /\ mf.frames[k].filename = FramePath(m.path.ts, k - 1)
              /\ \E f \in FrameFiles(m.path.ts) : f.path = mf.frames[k].filename
        /\ \A f, g \in FrameFiles(m.path.ts) :
              f.path.idx < g.path.idx => f.bytes[1] < g.bytes[1]

\* a stop has returned Stopped after writing two frames and their manifest
C36_Witness ==
    /\ log.last.op = "stop" /\ log.last.res = "Stopped"
    /\ \E m \in Manifests : m.manifest.frameCount = 2
                            /\ Cardinality(FrameFiles(m.path.ts)) = 2

\* C37: the frames buffered for a session were all received on the CDP session
\* that session holds, and are buffered in the order in which they arrived.
C37_OwnFramesOnly ==
    \A r \in 1..Len(recs) :
        recs[r].kind = "screencast"
        => /\ \A k \in 1..Len(recs[r].frames) : recs[r].frames[k].h = recs[r].h
           /\ \A j, k \in 1..Len(recs[r].frames) :
                 j < k => recs[r].frames[j].id < recs[r].frames[k].id

====
